---------------------------- MODULE Spec2Model ----------------------------
(***************************************************************************)
(* A model of the market-data core of dhan-trading-app:                    *)
(*   - the depth snapshot assembler of DhanLevel3WebSocketClient           *)
(*     (api/websocket_depth.py, _store_depth_data),                        *)
(*   - the subscription registries and the callback dispatch of            *)
(*     MarketDepthManager / MarketDataManager (market_data/*.py),          *)
(*   - the connection lifecycle of the two feed clients                    *)
(*     (connect, disconnect, _on_open, _on_close, _handle_error).          *)
(* Each subsystem has its own specification over the shared variables;     *)
(* the variables a specification does not use stay at their initial value. *)
(***************************************************************************)
EXTENDS Integers, Sequences, FiniteSets, TLC

VARIABLES
    \* ---- depth snapshot assembler (DhanLevel3WebSocketClient) ----
    now,            \* time.time() / datetime.now(), in ticks
    depth_buffers,  \* self.depth_buffers: security_id -> buffer or NoBuffer
    delivered,      \* responses passed to on_depth_update, in order
    frames_seen,    \* number of depth frames parsed so far
    last_frame,     \* the frame most recently handed to _store_depth_data
    \* ---- managers and client registries ----
    feed,           \* "depth": MarketDepthManager + DhanLevel3WebSocketClient
                    \* "ticker": MarketDataManager + DhanWebSocketClient
    is_connected,   \* ws_client.is_connected
    subscribers,    \* manager.subscribers: security_id -> list of callbacks
    subscriptions,  \* ws_client.subscriptions: key -> subscription info
    depth_data,     \* MarketDepthManager.depth_data: security_id -> response
    live_data,      \* MarketDataManager.live_data: security_id -> packet
    user_pc,        \* where the thread calling the manager API stands
    pending,        \* arguments of the API call in progress
    call,           \* the last API call and how it ended
    pre_subscribers,    \* manager.subscribers when that call began
    pre_subscriptions,  \* ws_client.subscriptions when that call began
    \* ---- dispatch of one update to the subscriber callbacks ----
    d_pc,           \* where the dispatching thread stands
    d_sec,          \* security_id of the update being dispatched
    d_callbacks,    \* the list object the dispatch loop iterates
    d_attached,     \* that list is still manager.subscribers[d_sec]
    d_idx,          \* position of the dispatch loop in d_callbacks
    d_reg0,         \* callbacks registered for d_sec when the update was stored
    invoked,        \* callbacks called for this update, in call order
    raised,         \* positions of the callbacks that raised
    propagated,     \* an exception left the dispatch loop
    dispatches,     \* number of updates dispatched so far
    client_lock,    \* holder of ws_client.lock
    manager_lock,   \* holder of manager.lock
    \* ---- connection lifecycle of a feed client ----
    transport,      \* the WebSocketApp objects created by connect(), by state
    ws,             \* self.ws: the transport created last (0: None)
    t_pc,           \* where each transport's thread stands in _on_close
    reconnect_attempts, \* self.reconnect_attempts
    stop_processing,    \* self.stop_processing
    processing_thread,  \* self.processing_thread (0: None)
    workers,        \* the message-processing threads that are running
    message_queue,  \* len(self.message_queue)
    error_count,    \* self.error_count
    connects,       \* number of connect() calls made by the user
    attempts_since_open,    \* reconnection attempts since the last open
    delays,         \* the delays slept before the reconnection attempts
    explicit,       \* disconnect() was called and connect() not since
    resub,          \* the last resubscription made after a reconnect
    registered,     \* instruments subscribed and not unsubscribed since
    \* ---- the error window of the depth client ----
    err_clock,      \* time.time() as _handle_error reads it, in seconds
    last_error_time,    \* self.last_error_time
    first_error_time,   \* time of the error that made error_count 1
    \* ---- the decoding of raw frames ----
    raw_frame,      \* the last raw message handed to a parser
    outcomes,       \* what became of each raw message, in order of arrival
    \* ---- the parsers and analyses of one snapshot ----
    fn_in,          \* the payload or snapshot a function is called with
    fn_out,         \* what the function returned
    \* ---- the messages of the depth client on their way to the parser ----
    queue,          \* self.message_queue, message by message
    batches,        \* messages_to_process of each processing worker
    decoded,        \* the messages handed to _parse_depth_message, in order
    arrived,        \* number of messages handed to _on_message
    \* ---- the analyses kept beside the depth data ----
    analysis_cache, \* MarketDepthManager.analysis_cache
    depth_history   \* MarketDepthAnalyzer.depth_history

asmVars == <<now, depth_buffers, delivered, frames_seen, last_frame>>
regVars == <<feed, is_connected, subscribers, subscriptions, depth_data,
             live_data, user_pc, pending, call, pre_subscribers,
             pre_subscriptions>>
dispVars == <<d_pc, d_sec, d_callbacks, d_attached, d_idx, d_reg0, invoked,
              raised, propagated, dispatches, client_lock, manager_lock>>

connVars == <<transport, ws, t_pc, reconnect_attempts, stop_processing,
              processing_thread, workers, message_queue, error_count,
              connects, attempts_since_open, delays, explicit, resub>>

errVars == <<err_clock, last_error_time, first_error_time>>
decVars == <<raw_frame, outcomes>>
fnVars == <<fn_in, fn_out>>
pipeVars == <<queue, batches, decoded, arrived>>
cacheVars == <<analysis_cache>>
histVars == <<depth_history>>
auxVars == <<errVars, decVars, fnVars, pipeVars, cacheVars, histVars>>

vars == <<asmVars, regVars, dispVars, connVars, registered, auxVars>>

-----------------------------------------------------------------------------
(* Bounds of the model *)

NumSecurities == 2      \* security ids 1..NumSecurities appear on the wire
MaxFrames == 3          \* depth frames received in one behaviour
MaxTime == 4            \* the clock stops advancing at MaxTime ticks
TicksPerSecond == 2     \* clock resolution: one tick is 1/TicksPerSecond s

NumInstruments == 2     \* the manager API is called for ids 1..NumInstruments
MaxCallbacks == 2       \* callbacks registered per security id
MaxDispatches == 2      \* updates dispatched in one behaviour

MaxTransports == 6      \* WebSocketApp objects created in one behaviour
SessionTransports == 2  \* transports in the behaviours that use the registry
MaxUserConnects == 2    \* connect() calls made by the user of a client
MaxQueue == 1           \* messages waiting in self.message_queue
BreakerTransports == 2  \* transports in the behaviours of the circuit breaker
StartClock == 1000      \* time.time() when the client is constructed
ClockStep == 200        \* seconds by which the clock moves in one step
MaxClockSteps == 2      \* clock steps in one behaviour
UnknownCode == 99       \* a response code that no parser knows
DecodeTransports == 1   \* transports in the behaviours that decode raw frames
BestBid == 100          \* price of the best bid, in ticks
BestAsk == 102          \* price of the best ask, in ticks
ExtraLevels == 1        \* levels a payload may carry beyond the twentieth
LargeQuantity == 6      \* quantity of a level that stands out of its side
MaxArrivals == 3        \* messages handed to _on_message in one behaviour
PipeTransports == 2     \* transports in the behaviours of the message queue
MaxHistory == 3         \* snapshots added to the analyzer's history

(* Program constants *)

buffer_timeout == 1     \* self.buffer_timeout = 1.0 (seconds)
max_subscriptions == 50         \* MarketDepthManager.max_subscriptions
MaxInstrumentsPerCall == 50     \* subscribe_instruments: len(instruments) > 50
chunk_size == 100               \* DhanWebSocketClient.subscribe: chunk_size
subscription_limit == 1000      \* MarketDataManager.max_subscriptions default
max_reconnect_attempts == 5     \* self.max_reconnect_attempts
reconnect_delay == 5            \* self.reconnect_delay (seconds)
max_errors == 10                \* self.max_errors
error_reset_time == 300         \* self.error_reset_time (seconds)
HeaderLength == 12              \* _parse_depth_message: len(message) < 12
PayloadLength == 320            \* _parse_bid_depth: len(payload) < 320
TickerHeaderLength == 8         \* _parse_binary_message: len(message) < 8
TickerPayloadLength == 8        \* _parse_ticker_packet: payload[0:4], [4:8]
NumLevels == 20                 \* _parse_bid_depth: for i in range(20)
threshold_multiplier == 2       \* detect_demand_supply_zones: 2.0
OrderFlowWeight == 70           \* ("BUY", 70) / ("SELL", 70)
ZoneWeight == 60                \* ("BUY", 60) / ("SELL", 60)
ZoneMargin == 2                 \* len(demand_zones) > len(supply_zones) + 2
MaxConfidence == 90             \* min(90, ...)
HoldConfidence == 50            \* confidence = 50 without any component
StopLossLevels == 6             \* bid_levels[1:6]
MaxTargets == 3                 \* range(min(3, len(ask_levels)))

-----------------------------------------------------------------------------
(* Values *)

None == "None"
\* an absent side frame (a key missing from a buffer dict)
NoFrame == [side |-> "none", security_id |-> 0, exchange_segment |-> "",
            timestamp |-> -1, seq |-> 0]
SecIds == 1..NumSecurities
SegmentCodes == {1, 2}
Sides == {"bid", "ask"}

\* DepthFeedResponseCode
BID_DATA == 41
ASK_DATA == 51
DISCONNECT == 50
\* FeedResponseCode.TICKER
TICKER == 2

\* no raw message yet
NoMessage == [binary |-> TRUE, length |-> -1, code |-> 0, segment_code |-> 0,
              security_id |-> 0]

\* _get_exchange_segment_name: table lookup with "UNKNOWN" as the default
GetExchangeSegmentName(segment_code) ==
    CASE segment_code = 1 -> "NSE_EQ"
      [] segment_code = 2 -> "NSE_FNO"
      [] segment_code = 3 -> "NSE_CURR"
      [] segment_code = 4 -> "BSE_EQ"
      [] segment_code = 5 -> "BSE_FNO"
      [] segment_code = 6 -> "BSE_CURR"
      [] segment_code = 7 -> "MCX_COMM"
      [] segment_code = 8 -> "IDX_I"
      [] OTHER -> "UNKNOWN"

\* the buffer window in clock ticks
BufferWindow == buffer_timeout * TicksPerSecond

\* a security id without an entry in self.depth_buffers
NoBuffer == [bid |-> NoFrame, ask |-> NoFrame, timestamp |-> -1]

\* MarketDepth20Level built by _parse_bid_depth / _parse_ask_depth
\* (seq is the arrival index of the frame and stands for its 20 levels)
SideFrame(side, security_id, exchange_segment, t, seq) ==
    [side |-> side, security_id |-> security_id,
     exchange_segment |-> exchange_segment, timestamp |-> t, seq |-> seq]

\* the side a response code is parsed into
SideOf(feed_response_code) ==
    IF feed_response_code = BID_DATA THEN "bid" ELSE "ask"

-----------------------------------------------------------------------------
(* _store_frame *)

\* lines 430-434: create the entry if missing, overwrite the side, stamp it
BufferWithFrame(buffer, side, frame, current_time) ==
    [buffer EXCEPT ![side] = frame, !.timestamp = current_time]

\* line 438: both sides are in the buffer
HasBothSides(buffer) == buffer.bid # NoFrame /\ buffer.ask # NoFrame

\* line 440: the freshness test, on the timestamp line 434 has just written
IsRecent(buffer, current_time) ==
    current_time - buffer.timestamp <= BufferWindow

\* lines 442-448: the combined response
CombinedResponse(security_id, frame, buffer, current_time) ==
    [security_id |-> security_id,
     exchange_segment |-> frame.exchange_segment,
     bid_depth |-> buffer.bid,
     ask_depth |-> buffer.ask,
     timestamp |-> current_time]

\* line 451: del self.depth_buffers[security_id]
BufferAfterEmitKept(buffer) == buffer
BufferAfterEmit(buffer) == NoBuffer

\* the whole of _store_frame, with on_depth_update recording the response
StoreDepthData(security_id, side, frame) ==
    LET current_time == now
        buffer == BufferWithFrame(depth_buffers[security_id], side,
                                  frame, current_time)
    IN  IF HasBothSides(buffer) /\ IsRecent(buffer, current_time)
        THEN /\ depth_buffers' =
                    [depth_buffers EXCEPT ![security_id] = BufferAfterEmit(buffer)]
             /\ delivered' = Append(delivered,
                    CombinedResponse(security_id, frame, buffer, current_time))
        ELSE /\ depth_buffers' = [depth_buffers EXCEPT ![security_id] = buffer]
             /\ delivered' = delivered

\* _parse_depth_message on a full-length frame with a bid or ask response
\* code, through _parse_bid_depth / _parse_ask_depth into _store_frame
ParseDepthMessage ==
    /\ frames_seen < MaxFrames
    /\ \E security_id \in SecIds, segment_code \in SegmentCodes,
          feed_response_code \in {BID_DATA, ASK_DATA} :
          LET side == SideOf(feed_response_code)
              frame == SideFrame(side, security_id,
                                      GetExchangeSegmentName(segment_code),
                                      now, frames_seen + 1)
          IN  /\ StoreDepthData(security_id, side, frame)
              /\ last_frame' = frame
              /\ decoded' = Append(decoded,
                    [side |-> side, seq |-> frames_seen + 1,
                     exchange_segment |-> frame.exchange_segment,
                     security_id |-> security_id, transport |-> ws])
    /\ frames_seen' = frames_seen + 1
    /\ now' = now
    /\ UNCHANGED <<queue, batches, arrived>>
    /\ UNCHANGED <<regVars, dispVars, connVars, registered, errVars, decVars,
                   fnVars, cacheVars, histVars>>

\* the wall clock advances between frames
Tick ==
    /\ now < MaxTime
    /\ now' = now + 1
    /\ UNCHANGED <<depth_buffers, delivered, frames_seen, last_frame>>
    /\ UNCHANGED <<regVars, dispVars, connVars, registered, auxVars>>

-----------------------------------------------------------------------------
(* The managers and the clients' registries *)

Callbacks == {"cb1", "cb2"}
RegistryCallbacks == {"cb1"}
NoCall == [op |-> "none", outcome |-> "none"]
NoPending == [security_id |-> 0, exchange_segment |-> "", callback |-> None,
              feed_mode |-> ""]
EmptyMap == [x \in {} |-> 0]

\* dict.pop(key, None)
Pop(map, key) == [k \in DOMAIN map \ {key} |-> map[k]]
\* dict[key] = value
Put(map, key, value) == [k \in DOMAIN map \cup {key} |->
                            IF k = key THEN value ELSE map[k]]
\* _on_depth_update, line 212: self.analysis_cache.pop(security_id, None)
CacheAfterUpdateKept(security_id) == analysis_cache
CacheAfterUpdate(security_id) == Pop(analysis_cache, security_id)
\* dict.get(key, [])
GetList(map, key) == IF key \in DOMAIN map THEN map[key] ELSE <<>>

Transports == 1..MaxTransports
NoResub == [n |-> 0, result |-> "none", keys |-> {}, registry |-> {}]

\* __init__ of a feed client: no transport, no worker, counters at zero
ClientFresh ==
    /\ transport = [k \in Transports |-> "unused"]
    /\ ws = 0
    /\ t_pc = [k \in Transports |-> "run"]
    /\ reconnect_attempts = 0
    /\ stop_processing = FALSE
    /\ processing_thread = 0
    /\ workers = {}
    /\ message_queue = 0
    /\ error_count = 0
    /\ connects = 0
    /\ attempts_since_open = 0
    /\ delays = {}
    /\ explicit = FALSE
    /\ resub = NoResub
    /\ err_clock = StartClock
    /\ last_error_time = 0
    /\ first_error_time = 0
    /\ queue = <<>>
    /\ batches = [w \in Transports |-> <<>>]
    /\ decoded = <<>>
    /\ arrived = 0

\* __init__ of a manager and of its client, and no update in dispatch
ManagerFresh ==
    /\ is_connected = FALSE
    /\ subscribers = EmptyMap
    /\ subscriptions = EmptyMap
    /\ depth_data = EmptyMap
    /\ analysis_cache = EmptyMap
    /\ live_data = EmptyMap
    /\ user_pc = "idle"
    /\ pending = NoPending
    /\ call = NoCall
    /\ pre_subscribers = EmptyMap
    /\ pre_subscriptions = EmptyMap
    /\ d_pc = "idle"
    /\ d_sec = 0
    /\ d_callbacks = <<>>
    /\ d_attached = FALSE
    /\ d_idx = 0
    /\ d_reg0 = <<>>
    /\ invoked = <<>>
    /\ raised = {}
    /\ propagated = FALSE
    /\ dispatches = 0
    /\ client_lock = "none"
    /\ manager_lock = "none"
    /\ registered = {}
    /\ ClientFresh

\* __init__ of the client: empty buffers
AssemblerFresh ==
    /\ now = 0
    /\ depth_buffers = [s \in SecIds |-> NoBuffer]
    /\ delivered = <<>>
    /\ frames_seen = 0
    /\ last_frame = NoFrame
    /\ raw_frame = NoMessage
    /\ outcomes = <<>>

\* no parser or analysis has been called
NoInput == [op |-> "none"]
NoOutput == [op |-> "none"]
NoAnalysis == fn_in = NoInput /\ fn_out = NoOutput

\* MarketDepthAnalyzer.__init__: an empty history
AnalyzerFresh == depth_history = <<>>

InitAssembler ==
    /\ AssemblerFresh
    /\ feed = "depth"
    /\ ManagerFresh
    /\ AnalyzerFresh
    /\ NoAnalysis

NextAssembler ==
    \/ ParseDepthMessage
    \/ Tick

SpecAssembler == InitAssembler /\ [][NextAssembler]_vars

-----------------------------------------------------------------------------
(* MarketDepthManager and DhanLevel3WebSocketClient: subscribe, unsubscribe *)

ApiSecIds == 1..NumInstruments
ApiSegments == {"NSE_EQ", "BSE_EQ"}
SupportedSegments == {"NSE_EQ", "NSE_FNO"}

Instrument(exchange_segment, security_id) ==
    [exchange_segment |-> exchange_segment, security_id |-> security_id]

\* f"{inst['exchange_segment']}:{inst['security_id']}"
KeyOf(inst) == <<inst.exchange_segment, inst.security_id>>

\* the instruments lo..hi of one segment, as a caller's list
InstrumentRange(lo, hi, exchange_segment) ==
    {Instrument(exchange_segment, i) : i \in lo..hi}

\* the lists subscribe_instruments is called with directly
Batches ==
    { InstrumentRange(1, MaxInstrumentsPerCall, "NSE_EQ"),
      InstrumentRange(MaxInstrumentsPerCall + 1, MaxInstrumentsPerCall + 1, "NSE_EQ"),
      InstrumentRange(1, MaxInstrumentsPerCall + 1, "NSE_EQ"),
      InstrumentRange(1, 1, "BSE_EQ") }

\* "Track subscriptions": self.subscriptions[key] = {...} for each instrument
Track(subs, instruments, feed_mode) ==
    LET keys == {KeyOf(inst) : inst \in instruments}
    IN  [k \in DOMAIN subs \cup keys |->
            IF k \in keys
            THEN [exchange_segment |-> k[1], security_id |-> k[2],
                  feed_mode |-> feed_mode]
            ELSE subs[k]]

\* subscribe_instruments, lines 173-183: what is checked before the send
SubscribeInstrumentsCheck(instruments) ==
    IF ~is_connected THEN "WebSocketError"
    ELSE IF Cardinality(instruments) > MaxInstrumentsPerCall THEN "ValueError"
    ELSE IF \E inst \in instruments :
                inst.exchange_segment \notin SupportedSegments
         THEN "ValueError"
    ELSE "ok"

\* subscribe_instruments, whole: the send (send_ok: ws.send does not raise)
\* and the tracking of the batch
SubscribeInstrumentsResult(instruments, send_ok) ==
    LET checked == SubscribeInstrumentsCheck(instruments)
    IN  IF checked # "ok"
        THEN [outcome |-> checked, subscriptions |-> subscriptions]
        ELSE IF ~send_ok
        THEN [outcome |-> "WebSocketError", subscriptions |-> subscriptions]
        ELSE [outcome |-> "ok",
              subscriptions |-> Track(subscriptions, instruments, "NONE")]

\* the registries as they were when the API call began, kept while the
\* call is in progress and after it has raised
RememberPre(outcome) ==
    /\ pre_subscribers' = IF outcome = "ok" THEN EmptyMap ELSE subscribers
    /\ pre_subscriptions' = IF outcome = "ok" THEN EmptyMap ELSE subscriptions
ForgetPre(outcome) ==
    /\ pre_subscribers' = IF outcome = "ok" THEN EmptyMap ELSE pre_subscribers
    /\ pre_subscriptions' = IF outcome = "ok" THEN EmptyMap ELSE pre_subscriptions

\* the instruments the caller has subscribed and not unsubscribed
Register(outcome, keys) ==
    registered' = IF outcome = "ok" THEN registered \cup keys ELSE registered

\* self.subscribers[security_id].append(callback), seen by a dispatch loop
\* that iterates the same list object
AppendCallback(security_id, callback) ==
    /\ subscribers' = Put(subscribers, security_id,
                          Append(GetList(subscribers, security_id), callback))
    /\ d_callbacks' =
         IF d_attached /\ d_sec = security_id /\ d_pc \in {"callbacks", "in_callback"}
         THEN Append(d_callbacks, callback) ELSE d_callbacks

\* subscribe_depth, lines 102-121: the checks and the manager's critical
\* section (capacity test, callback registration, already-subscribed test)
SubscribeDepthBegin(security_ids, exchange_segments, callbacks) ==
    /\ feed = "depth" /\ user_pc = "idle" /\ manager_lock = "none"
    /\ \E security_id \in security_ids, exchange_segment \in exchange_segments,
          callback \in callbacks \cup {None} :
        /\ callback # None =>
               Len(GetList(subscribers, security_id)) < MaxCallbacks
        /\ IF ~is_connected
           THEN /\ call' = [op |-> "subscribe_depth", outcome |-> "MarketDataError"]
                /\ UNCHANGED <<subscribers, d_callbacks, user_pc, pending>>
           ELSE IF exchange_segment \notin SupportedSegments
           THEN /\ call' = [op |-> "subscribe_depth", outcome |-> "ValueError"]
                /\ UNCHANGED <<subscribers, d_callbacks, user_pc, pending>>
           ELSE IF Cardinality(DOMAIN subscribers) >= max_subscriptions
           THEN /\ call' = [op |-> "subscribe_depth", outcome |-> "MarketDataError"]
                /\ UNCHANGED <<subscribers, d_callbacks, user_pc, pending>>
           ELSE /\ IF callback # None
                   THEN AppendCallback(security_id, callback)
                   ELSE UNCHANGED <<subscribers, d_callbacks>>
                /\ IF security_id \in DOMAIN depth_data
                   THEN /\ call' = [op |-> "subscribe_depth", outcome |-> "ok"]
                        /\ UNCHANGED <<user_pc, pending>>
                   ELSE /\ call' = [op |-> "subscribe_depth", outcome |-> "pending"]
                        /\ user_pc' = "send"
                        /\ pending' = [security_id |-> security_id,
                                       exchange_segment |-> exchange_segment,
                                       callback |-> callback, feed_mode |-> ""]
        /\ RememberPre(call'.outcome)
        /\ Register(call'.outcome, {<<exchange_segment, security_id>>})
    /\ UNCHANGED <<feed, is_connected, subscriptions, depth_data, live_data>>
    /\ UNCHANGED <<d_pc, d_sec, d_attached, d_idx, d_reg0, invoked, raised,
                   propagated, dispatches, client_lock, manager_lock>>
    /\ UNCHANGED <<asmVars, connVars, auxVars>>

\* subscribe_depth, lines 123-136: ws_client.subscribe_instruments for the
\* one instrument; any exception becomes MarketDataError
SubscribeDepthSend ==
    /\ feed = "depth" /\ user_pc = "send"
    /\ \E send_ok \in BOOLEAN :
        LET r == SubscribeInstrumentsResult(
                    {Instrument(pending.exchange_segment, pending.security_id)},
                    send_ok)
        IN  /\ r.outcome = "ok" => client_lock = "none"
            /\ subscriptions' = r.subscriptions
            /\ call' = [op |-> "subscribe_depth",
                        outcome |-> IF r.outcome = "ok" THEN "ok"
                                    ELSE "MarketDataError"]
    /\ ForgetPre(call'.outcome)
    /\ Register(call'.outcome, {<<pending.exchange_segment, pending.security_id>>})
    /\ user_pc' = "idle"
    /\ pending' = NoPending
    /\ UNCHANGED <<feed, is_connected, subscribers, depth_data, live_data>>
    /\ UNCHANGED <<asmVars, dispVars, connVars, auxVars>>

\* subscribe_instruments called directly on the client with a list
SubscribeInstruments ==
    /\ feed = "depth" /\ user_pc = "idle"
    /\ \E instruments \in Batches, send_ok \in BOOLEAN :
        LET r == SubscribeInstrumentsResult(instruments, send_ok)
        IN  /\ r.outcome = "ok" => client_lock = "none"
            /\ subscriptions' = r.subscriptions
            /\ call' = [op |-> "subscribe_instruments", outcome |-> r.outcome]
            /\ Register(r.outcome, {KeyOf(inst) : inst \in instruments})
    /\ RememberPre(call'.outcome)
    /\ UNCHANGED <<feed, is_connected, subscribers, depth_data, live_data,
                   user_pc, pending>>
    /\ UNCHANGED <<asmVars, dispVars, connVars, auxVars>>

\* unsubscribe_depth
UnsubscribeDepth(security_ids) ==
    /\ feed = "depth" /\ user_pc = "idle" /\ manager_lock = "none"
    /\ \E security_id \in security_ids :
        /\ depth_data' = Pop(depth_data, security_id)
        /\ subscribers' = Pop(subscribers, security_id)
        /\ analysis_cache' = Pop(analysis_cache, security_id)
        /\ d_attached' = IF security_id = d_sec THEN FALSE ELSE d_attached
        /\ registered' = {k \in registered : k[2] # security_id}
    /\ call' = [op |-> "unsubscribe_depth", outcome |-> "ok"]
    /\ RememberPre("ok")
    /\ UNCHANGED <<feed, is_connected, subscriptions, live_data, user_pc, pending>>
    /\ UNCHANGED <<d_pc, d_sec, d_callbacks, d_idx, d_reg0, invoked, raised,
                   propagated, dispatches, client_lock, manager_lock>>
    /\ UNCHANGED <<asmVars, connVars, errVars, decVars, fnVars, pipeVars,
                   histVars>>

\* _on_open, first statement: the transport signalled open
ConnectionOpened ==
    /\ ~is_connected
    /\ is_connected' = TRUE
    /\ UNCHANGED <<feed, subscribers, subscriptions, depth_data, live_data,
                   user_pc, pending, call, pre_subscribers, pre_subscriptions,
                   registered>>
    /\ UNCHANGED <<asmVars, dispVars, connVars, auxVars>>

\* _on_close, first statement: the transport closed
ConnectionClosed ==
    /\ is_connected
    /\ is_connected' = FALSE
    /\ UNCHANGED <<feed, subscribers, subscriptions, depth_data, live_data,
                   user_pc, pending, call, pre_subscribers, pre_subscriptions,
                   registered>>
    /\ UNCHANGED <<asmVars, dispVars, connVars, auxVars>>

-----------------------------------------------------------------------------
(* MarketDataManager and DhanWebSocketClient: subscribe, unsubscribe *)

FeedModes == {"TICKER", "QUOTE"}

\* the lists DhanWebSocketClient.subscribe is called with directly:
\* one instrument, and one more than a chunk
TickerBatches == { <<1, 1>>, <<1, chunk_size + 1>> }

\* range(0, len(instruments), chunk_size): the number of chunks
NumChunks(n) == (n + chunk_size - 1) \div chunk_size

\* instruments[i:i + chunk_size] for the c-th chunk (c = 1, 2, ...) of lo..hi
ChunkOf(lo, hi, c) ==
    LET first == lo + (c - 1) * chunk_size
        last == IF first + chunk_size - 1 < hi THEN first + chunk_size - 1 ELSE hi
    IN  InstrumentRange(first, last, "NSE_EQ")

\* the chunk loop of subscribe, lines 211-243, from chunk c on: each chunk is
\* sent and then tracked; the send of chunk fail_at raises (0: none does)
RECURSIVE SubscribeChunks(_, _, _, _, _, _)
SubscribeChunks(subs, lo, hi, c, feed_mode, fail_at) ==
    IF c > NumChunks(hi - lo + 1)
    THEN [outcome |-> "ok", subscriptions |-> subs]
    ELSE IF c = fail_at
    THEN [outcome |-> "WebSocketError", subscriptions |-> subs]
    ELSE SubscribeChunks(Track(subs, ChunkOf(lo, hi, c), feed_mode),
                         lo, hi, c + 1, feed_mode, fail_at)

\* DhanWebSocketClient.subscribe, whole
SubscribeResult(lo, hi, feed_mode, fail_at) ==
    IF ~is_connected
    THEN [outcome |-> "WebSocketError", subscriptions |-> subscriptions]
    ELSE SubscribeChunks(subscriptions, lo, hi, 1, feed_mode, fail_at)

\* DhanWebSocketClient.subscribe called directly on the client with a list
Subscribe ==
    /\ feed = "ticker" /\ user_pc = "idle"
    /\ \E batch \in TickerBatches, feed_mode \in FeedModes :
       \E fail_at \in 0..NumChunks(batch[2] - batch[1] + 1) :
        LET r == SubscribeResult(batch[1], batch[2], feed_mode, fail_at)
        IN  /\ subscriptions' = r.subscriptions
            /\ call' = [op |-> "subscribe", outcome |-> r.outcome]
            /\ Register(r.outcome,
                        {KeyOf(inst) : inst \in
                            InstrumentRange(batch[1], batch[2], "NSE_EQ")})
    /\ RememberPre(call'.outcome)
    /\ UNCHANGED <<feed, is_connected, subscribers, depth_data, live_data,
                   user_pc, pending>>
    /\ UNCHANGED <<asmVars, dispVars, connVars, auxVars>>

\* subscribe_instrument, lines 98-109: the checks, the capacity test under
\* the manager's lock, and ws_client.subscribe for the one instrument
SubscribeInstrumentBegin(security_ids, exchange_segments, callbacks) ==
    /\ feed = "ticker" /\ user_pc = "idle" /\ manager_lock = "none"
    /\ \E security_id \in security_ids, exchange_segment \in exchange_segments,
          callback \in callbacks \cup {None}, feed_mode \in FeedModes,
          fail_at \in 0..1 :
        /\ callback # None =>
               Len(GetList(subscribers, security_id)) < MaxCallbacks
        /\ IF ~is_connected
           THEN /\ call' = [op |-> "subscribe_instrument", outcome |-> "MarketDataError"]
                /\ UNCHANGED <<subscriptions, user_pc, pending>>
           ELSE IF Cardinality(DOMAIN subscribers) >= subscription_limit
           THEN /\ call' = [op |-> "subscribe_instrument", outcome |-> "MarketDataError"]
                /\ UNCHANGED <<subscriptions, user_pc, pending>>
           ELSE LET r == SubscribeChunks(subscriptions, security_id, security_id,
                                         1, feed_mode, fail_at)
                IN  /\ subscriptions' =
                         r.subscriptions
                    /\ IF r.outcome # "ok"
                       THEN /\ call' = [op |-> "subscribe_instrument",
                                        outcome |-> "MarketDataError"]
                            /\ UNCHANGED <<user_pc, pending>>
                       ELSE IF callback = None
                       THEN /\ call' = [op |-> "subscribe_instrument", outcome |-> "ok"]
                            /\ UNCHANGED <<user_pc, pending>>
                       ELSE /\ call' = [op |-> "subscribe_instrument",
                                        outcome |-> "pending"]
                            /\ user_pc' = "register"
                            /\ pending' = [security_id |-> security_id,
                                           exchange_segment |-> exchange_segment,
                                           callback |-> callback,
                                           feed_mode |-> feed_mode]
        /\ RememberPre(call'.outcome)
        /\ Register(IF call'.outcome = "pending" THEN "ok" ELSE call'.outcome,
                    {<<exchange_segment, security_id>>})
    /\ UNCHANGED <<feed, is_connected, subscribers, depth_data, live_data>>
    /\ UNCHANGED <<asmVars, dispVars, connVars, auxVars>>

\* subscribe_instrument, lines 111-116: the callback is registered under the
\* manager's lock after the subscription was sent
SubscribeInstrumentRegister ==
    /\ feed = "ticker" /\ user_pc = "register" /\ manager_lock = "none"
    /\ AppendCallback(pending.security_id, pending.callback)
    /\ call' = [op |-> "subscribe_instrument", outcome |-> "ok"]
    /\ ForgetPre("ok")
    /\ user_pc' = "idle"
    /\ pending' = NoPending
    /\ UNCHANGED <<feed, is_connected, subscriptions, depth_data, live_data,
                   registered>>
    /\ UNCHANGED <<d_pc, d_sec, d_attached, d_idx, d_reg0, invoked, raised,
                   propagated, dispatches, client_lock, manager_lock>>
    /\ UNCHANGED <<asmVars, connVars, auxVars>>

\* unsubscribe_instrument: ws_client.unsubscribe, then the manager's maps
UnsubscribeInstrument(security_ids, exchange_segments) ==
    /\ feed = "ticker" /\ user_pc = "idle" /\ manager_lock = "none"
    /\ \E security_id \in security_ids, exchange_segment \in exchange_segments :
        /\ subscriptions' = Pop(subscriptions, <<exchange_segment, security_id>>)
        /\ live_data' = Pop(live_data, security_id)
        /\ subscribers' = Pop(subscribers, security_id)
        /\ d_attached' = IF security_id = d_sec THEN FALSE ELSE d_attached
        /\ registered' = registered \ {<<exchange_segment, security_id>>}
    /\ call' = [op |-> "unsubscribe_instrument", outcome |-> "ok"]
    /\ RememberPre("ok")
    /\ UNCHANGED <<feed, is_connected, depth_data, user_pc, pending>>
    /\ UNCHANGED <<d_pc, d_sec, d_callbacks, d_idx, d_reg0, invoked, raised,
                   propagated, dispatches, client_lock, manager_lock>>
    /\ UNCHANGED <<asmVars, connVars, auxVars>>

-----------------------------------------------------------------------------
(* Dispatch of a depth response: _store_depth_data -> on_depth_update ->    *)
(* MarketDepthManager._on_depth_update -> the subscribers' callbacks        *)

\* _store_depth_data, lines 429-455: the processing worker takes the
\* client's lock, combines both sides and calls on_depth_update inside the
\* "with self.lock" block
StoreDepthDataEmit(security_ids) ==
    /\ feed = "depth" /\ d_pc = "idle" /\ client_lock = "none"
    /\ dispatches < MaxDispatches
    /\ \E security_id \in security_ids : d_sec' = security_id
    /\ client_lock' = "processing"
    /\ d_pc' = "on_depth_update"
    /\ dispatches' = dispatches + 1
    /\ UNCHANGED <<d_callbacks, d_attached, d_idx, d_reg0, invoked, raised>>
    /\ UNCHANGED <<propagated, manager_lock>>
    /\ UNCHANGED <<asmVars, regVars, connVars, registered, auxVars>>

\* _on_depth_update, lines 205-215: the manager's critical section
OnDepthUpdateStore ==
    /\ d_pc = "on_depth_update" /\ manager_lock = "none"
    /\ depth_data' = Put(depth_data, d_sec, dispatches)
    /\ analysis_cache' = CacheAfterUpdate(d_sec)
    /\ d_callbacks' = GetList(subscribers, d_sec)
    /\ d_attached' = (d_sec \in DOMAIN subscribers)
    /\ d_reg0' = GetList(subscribers, d_sec)
    /\ d_idx' = 1
    /\ d_pc' = "callbacks"
    /\ UNCHANGED <<feed, is_connected, subscribers, subscriptions, live_data,
                   user_pc, pending, call, pre_subscribers, pre_subscriptions,
                   registered>>
    /\ UNCHANGED <<d_sec, invoked, raised, propagated, dispatches,
                   client_lock, manager_lock>>
    /\ UNCHANGED <<asmVars, connVars, errVars, decVars, fnVars, pipeVars,
                   histVars>>

\* the locals of the returned dispatch
DispatchLocalsGone ==
    /\ d_sec' = 0 /\ d_callbacks' = <<>> /\ d_attached' = FALSE /\ d_idx' = 0
    /\ d_reg0' = <<>> /\ invoked' = <<>> /\ raised' = {}

\* the for loop takes the next callback and calls it
CallbackEnter ==
    /\ d_pc = "callbacks" /\ d_idx <= Len(d_callbacks)
    /\ d_pc' = "in_callback"
    /\ invoked' = Append(invoked, d_callbacks[d_idx])
    /\ UNCHANGED <<d_sec, d_callbacks, d_attached, d_idx, d_reg0, raised,
                   propagated, dispatches, client_lock, manager_lock>>
    /\ UNCHANGED <<asmVars, regVars, connVars, registered, auxVars>>

\* _on_depth_update, lines 218-222: try: callback(...) except Exception: log
\* (whether the loop goes on after a callback that did or did not raise)
DepthLoopContinuesUncaught(did_raise) == ~did_raise
DepthLoopContinues(did_raise) == TRUE

\* _on_market_data, lines 453-457: the same try/except around each callback
MarketLoopContinues(did_raise) == TRUE

LoopContinues(did_raise) ==
    IF feed = "depth" THEN DepthLoopContinues(did_raise)
    ELSE MarketLoopContinues(did_raise)

\* the callback returns or raises
CallbackReturn ==
    /\ d_pc = "in_callback"
    /\ \E did_raise \in BOOLEAN :
        /\ raised' = IF did_raise THEN raised \cup {d_idx} ELSE raised
        /\ IF LoopContinues(did_raise)
           THEN /\ d_pc' = "callbacks"
                /\ d_idx' = d_idx + 1
                /\ UNCHANGED <<propagated, client_lock, manager_lock>>
           ELSE \* the exception leaves the loop and the "with" blocks
                /\ d_pc' = "aborted"
                /\ d_idx' = d_idx
                /\ propagated' = (feed = "depth")
                /\ client_lock' = "none"
                /\ manager_lock' = "none"
    /\ UNCHANGED <<d_sec, d_callbacks, d_attached, d_reg0, invoked, dispatches>>
    /\ UNCHANGED <<asmVars, regVars, connVars, registered, auxVars>>

\* the loop is exhausted: _on_depth_update returns into _store_depth_data,
\* which leaves its "with self.lock" block
OnDepthUpdateReturn ==
    /\ feed = "depth"
    /\ d_pc = "callbacks" /\ d_idx > Len(d_callbacks)
    /\ d_pc' = "idle"
    /\ client_lock' = "none"
    /\ DispatchLocalsGone
    /\ UNCHANGED <<propagated, dispatches, manager_lock>>
    /\ UNCHANGED <<asmVars, regVars, connVars, registered, auxVars>>

\* DhanWebSocketClient._on_message -> MarketDataManager._on_market_data,
\* lines 447-453: the transport thread takes the manager's lock, stores the
\* packet and iterates the callbacks inside the "with self.lock" block
OnMarketDataStore(security_ids) ==
    /\ feed = "ticker" /\ d_pc = "idle" /\ manager_lock = "none"
    /\ dispatches < MaxDispatches
    /\ \E security_id \in security_ids :
        /\ d_sec' = security_id
        /\ live_data' = Put(live_data, security_id, dispatches + 1)
        /\ d_callbacks' = GetList(subscribers, security_id)
        /\ d_attached' = (security_id \in DOMAIN subscribers)
        /\ d_reg0' = GetList(subscribers, security_id)
    /\ manager_lock' = "transport"
    /\ dispatches' = dispatches + 1
    /\ d_idx' = 1
    /\ d_pc' = "callbacks"
    /\ UNCHANGED <<feed, is_connected, subscribers, subscriptions, depth_data,
                   user_pc, pending, call, pre_subscribers, pre_subscriptions,
                   registered>>
    /\ UNCHANGED <<invoked, raised, propagated, client_lock>>
    /\ UNCHANGED <<asmVars, connVars, auxVars>>

\* the loop is exhausted: _on_market_data leaves its "with self.lock" block
OnMarketDataReturn ==
    /\ feed = "ticker"
    /\ d_pc = "callbacks" /\ d_idx > Len(d_callbacks)
    /\ d_pc' = "idle"
    /\ manager_lock' = "none"
    /\ DispatchLocalsGone
    /\ UNCHANGED <<propagated, dispatches, client_lock>>
    /\ UNCHANGED <<asmVars, regVars, connVars, registered, auxVars>>

\* _on_depth_update as one step of a caller that does not look inside the
\* dispatch: the response is stored and every callback runs and returns
OnDepthUpdate(security_ids) ==
    /\ feed = "depth" /\ d_pc = "idle"
    /\ client_lock = "none" /\ manager_lock = "none"
    /\ dispatches < MaxDispatches
    /\ \E security_id \in security_ids :
          /\ depth_data' = Put(depth_data, security_id, dispatches + 1)
          /\ analysis_cache' = CacheAfterUpdate(security_id)
    /\ dispatches' = dispatches + 1
    /\ UNCHANGED <<feed, is_connected, subscribers, subscriptions, live_data,
                   user_pc, pending, call, pre_subscribers, pre_subscriptions,
                   registered>>
    /\ UNCHANGED <<d_pc, d_sec, d_callbacks, d_attached, d_idx, d_reg0, invoked,
                   raised, propagated, client_lock, manager_lock>>
    /\ UNCHANGED <<asmVars, connVars, errVars, decVars, fnVars, pipeVars,
                   histVars>>

(* The registries under sequences of API calls *)

InitRegistry ==
    /\ AssemblerFresh
    /\ feed \in {"depth", "ticker"}
    /\ ManagerFresh
    /\ AnalyzerFresh
    /\ NoAnalysis

NextRegistry ==
    \/ ConnectionOpened
    \/ ConnectionClosed
    \/ SubscribeDepthBegin(ApiSecIds, ApiSegments, RegistryCallbacks)
    \/ SubscribeDepthSend
    \/ SubscribeInstruments
    \/ UnsubscribeDepth(ApiSecIds)
    \/ OnDepthUpdate(ApiSecIds)
    \/ Subscribe
    \/ SubscribeInstrumentBegin(ApiSecIds, ApiSegments, RegistryCallbacks)
    \/ SubscribeInstrumentRegister
    \/ UnsubscribeInstrument(ApiSecIds, ApiSegments)

SpecRegistry == InitRegistry /\ [][NextRegistry]_vars

(* The dispatch of updates for one instrument, with concurrent API calls *)

DispatchSecIds == {1}
DispatchSegments == {"NSE_EQ"}

InitDispatch ==
    /\ AssemblerFresh
    /\ feed \in {"depth", "ticker"}
    /\ ManagerFresh
    /\ AnalyzerFresh
    /\ NoAnalysis

NextDispatch ==
    \/ ConnectionOpened
    \/ ConnectionClosed
    \/ SubscribeDepthBegin(DispatchSecIds, DispatchSegments, Callbacks)
    \/ SubscribeDepthSend
    \/ UnsubscribeDepth(DispatchSecIds)
    \/ StoreDepthDataEmit(DispatchSecIds)
    \/ OnDepthUpdateStore
    \/ CallbackEnter
    \/ CallbackReturn
    \/ OnDepthUpdateReturn
    \/ SubscribeInstrumentBegin(DispatchSecIds, DispatchSegments, Callbacks)
    \/ SubscribeInstrumentRegister
    \/ UnsubscribeInstrument(DispatchSecIds, DispatchSegments)
    \/ OnMarketDataStore(DispatchSecIds)
    \/ OnMarketDataReturn

SpecDispatch == InitDispatch /\ [][NextDispatch]_vars

-----------------------------------------------------------------------------
(* The connection lifecycle of a feed client: connect, disconnect, and the  *)
(* callbacks _on_open, _on_close, _on_message that the websocket library    *)
(* runs on the thread of the transport (WebSocketApp.run_forever)           *)

ConnSecIds == {1}
ConnSegments == {"NSE_EQ"}

Unused(limit) == {k \in 1..limit : transport[k] = "unused"}
Min(S) == CHOOSE x \in S : \A y \in S : x <= y

\* connect, lines 105-118: a new WebSocketApp becomes self.ws and its thread
\* is started
StartTransport(limit) ==
    /\ transport' = [transport EXCEPT ![Min(Unused(limit))] = "connecting"]
    /\ ws' = Min(Unused(limit))

\* connect() called by the user of the client, up to the wait loop
Connect(limit) ==
    /\ user_pc = "idle"
    /\ connects < MaxUserConnects
    /\ Unused(limit) # {}
    /\ StartTransport(limit)
    /\ connects' = connects + 1
    /\ user_pc' = "connect_wait"
    /\ call' = [op |-> "connect", outcome |-> "pending"]
    /\ explicit' = FALSE
    /\ UNCHANGED <<feed, is_connected, subscribers, subscriptions, depth_data,
                   live_data, pending, pre_subscribers, pre_subscriptions>>
    /\ UNCHANGED <<t_pc, reconnect_attempts, stop_processing, processing_thread,
                   workers, message_queue, error_count, attempts_since_open,
                   delays, resub>>
    /\ UNCHANGED <<asmVars, dispVars, registered, auxVars>>

\* connect, lines 120-133: the wait loop ends because is_connected is seen
\* true, or because the 10 s have passed while it was false
ConnectReturn ==
    /\ user_pc = "connect_wait"
    /\ call' = [op |-> "connect",
                outcome |-> IF is_connected THEN "ok" ELSE "WebSocketError"]
    /\ user_pc' = "idle"
    /\ UNCHANGED <<feed, is_connected, subscribers, subscriptions, depth_data,
                   live_data, pending, pre_subscribers, pre_subscriptions>>
    /\ UNCHANGED <<asmVars, dispVars, connVars, registered, auxVars>>

\* disconnect, line 141: join() of the thread that is calling raises
\* RuntimeError (caller: the worker's id, 0 for any other thread)
JoinRaises(caller) ==
    /\ feed = "depth"
    /\ caller # 0
    /\ caller = processing_thread
    /\ processing_thread \in workers

\* disconnect, line 146: send() on a transport that is not open raises
SendRaises == ws # 0 /\ transport[ws] # "open"

\* disconnect runs to its end: nothing raised into its except clause
DisconnectCompletes(caller) == ~JoinRaises(caller) /\ ~SendRaises

\* disconnect, whole, as called by the given thread
DisconnectBy(caller) ==
    /\ stop_processing' = IF feed = "depth" THEN TRUE ELSE stop_processing
    /\ IF DisconnectCompletes(caller)
       THEN /\ transport' = IF ws = 0 THEN transport
                            ELSE [transport EXCEPT ![ws] = "closing"]
            /\ is_connected' = FALSE
       ELSE UNCHANGED <<transport, is_connected>>

\* disconnect() called by the user of the client
Disconnect ==
    /\ user_pc = "idle"
    /\ DisconnectBy(0)
    /\ message_queue' = IF DisconnectCompletes(0) /\ feed = "depth"
                        THEN 0 ELSE message_queue
    /\ explicit' = TRUE
    /\ call' = [op |-> "disconnect", outcome |-> "ok"]
    /\ UNCHANGED <<feed, subscribers, subscriptions, depth_data, live_data,
                   user_pc, pending, pre_subscribers, pre_subscriptions>>
    /\ UNCHANGED <<ws, t_pc, reconnect_attempts, processing_thread, workers,
                   error_count, connects, attempts_since_open, delays, resub>>
    /\ UNCHANGED <<asmVars, dispVars, registered, auxVars>>

\* _on_open: the transport k signalled open
OnOpen(k) ==
    /\ transport[k] = "connecting"
    /\ transport' = [transport EXCEPT ![k] = "open"]
    /\ is_connected' = TRUE
    /\ reconnect_attempts' = 0
    /\ attempts_since_open' = 0
    /\ IF feed = "depth"
       THEN /\ stop_processing' = FALSE
            /\ processing_thread' = k
            /\ workers' = workers \cup {k}
            /\ error_count' = 0
       ELSE UNCHANGED <<stop_processing, processing_thread, workers, error_count>>
    /\ UNCHANGED <<feed, subscribers, subscriptions, depth_data, live_data,
                   user_pc, pending, call, pre_subscribers, pre_subscriptions>>
    /\ UNCHANGED <<ws, t_pc, message_queue, connects, delays, explicit, resub>>
    /\ UNCHANGED <<asmVars, dispVars, registered, auxVars>>

\* _on_close, lines 239-245: the transport k closed (after an open, after a
\* failed handshake or after close()); the test of the attempt counter
OnCloseCheck(k) ==
    /\ transport[k] \in {"connecting", "open", "closing"}
    /\ t_pc[k] = "run"
    /\ transport' = [transport EXCEPT ![k] = "closed"]
    /\ is_connected' = FALSE
    /\ t_pc' = [t_pc EXCEPT ![k] =
                  IF reconnect_attempts < max_reconnect_attempts
                  THEN "increment" ELSE "done"]
    /\ UNCHANGED <<feed, subscribers, subscriptions, depth_data, live_data,
                   user_pc, pending, call, pre_subscribers, pre_subscriptions>>
    /\ UNCHANGED <<ws, reconnect_attempts, stop_processing, processing_thread,
                   workers, message_queue, error_count, connects,
                   attempts_since_open, delays, explicit, resub>>
    /\ UNCHANGED <<asmVars, dispVars, registered, auxVars>>

\* _on_close, lines 246-248: the counter is incremented and the thread
\* starts to sleep for reconnect_delay
OnCloseIncrement(k) ==
    /\ t_pc[k] = "increment"
    /\ reconnect_attempts' = reconnect_attempts + 1
    /\ attempts_since_open' = attempts_since_open + 1
    /\ delays' = delays \cup {reconnect_delay}
    /\ t_pc' = [t_pc EXCEPT ![k] = "sleep"]
    /\ UNCHANGED <<transport, ws, stop_processing, processing_thread, workers,
                   message_queue, error_count, connects, explicit, resub>>
    /\ UNCHANGED <<asmVars, regVars, dispVars, registered, auxVars>>

\* _on_close, line 250: after the sleep, connect() up to its wait loop
OnCloseConnect(k, limit) ==
    /\ t_pc[k] = "sleep"
    /\ Unused(limit) # {}
    /\ StartTransport(limit)
    /\ t_pc' = [t_pc EXCEPT ![k] = "wait"]
    /\ UNCHANGED <<reconnect_attempts, stop_processing, processing_thread,
                   workers, message_queue, error_count, connects,
                   attempts_since_open, delays, explicit, resub>>
    /\ UNCHANGED <<asmVars, regVars, dispVars, registered, auxVars>>

\* the instruments _on_close collects from self.subscriptions.values()
TrackedInstruments ==
    {Instrument(key[1], key[2]) : key \in DOMAIN subscriptions}

\* _on_close, lines 252-260 (depth) and 287-295 (ticker): the subscribe call
\* made for the tracked instruments; the ticker client calls subscribe with
\* its default feed mode
ResubscribeResult(send_ok) ==
    IF feed = "depth"
    THEN SubscribeInstrumentsResult(TrackedInstruments, send_ok)
    ELSE IF ~is_connected \/ ~send_ok
    THEN [outcome |-> "WebSocketError", subscriptions |-> subscriptions]
    ELSE [outcome |-> "ok",
          subscriptions |-> Track(subscriptions, TrackedInstruments, "QUOTE")]

\* _on_close, lines 250-262: connect() returns or raises; after a return
\* the tracked instruments are subscribed again
OnCloseConnectReturn(k) ==
    /\ t_pc[k] = "wait"
    /\ t_pc' = [t_pc EXCEPT ![k] = "done"]
    /\ IF is_connected /\ DOMAIN subscriptions # {}
       THEN \E send_ok \in BOOLEAN :
              LET r == ResubscribeResult(send_ok)
              IN  /\ subscriptions' = r.subscriptions
                  /\ resub' = [n |-> resub.n + 1,
                               result |-> IF r.outcome = "ok" THEN "sent"
                                          ELSE "raised",
                               keys |-> DOMAIN subscriptions,
                               registry |-> registered]
       ELSE /\ UNCHANGED subscriptions
            /\ resub' = IF is_connected
                        THEN [n |-> resub.n + 1, result |-> "empty",
                              keys |-> {}, registry |-> registered]
                        ELSE resub
    /\ UNCHANGED <<feed, is_connected, subscribers, depth_data, live_data,
                   user_pc, pending, call, pre_subscribers, pre_subscriptions>>
    /\ UNCHANGED <<transport, ws, reconnect_attempts, stop_processing,
                   processing_thread, workers, message_queue, error_count,
                   connects, attempts_since_open, delays, explicit>>
    /\ UNCHANGED <<asmVars, dispVars, registered, auxVars>>

\* the security ids the server sends frames for: those of the instruments
\* the client has subscribed
Streamed == {key[2] : key \in DOMAIN subscriptions}

\* _on_message on the thread of transport k. Depth: the message is appended
\* to the queue. Ticker: the packet is parsed and handed to the manager,
\* which stores it.
OnMessage(k) ==
    /\ transport[k] = "open" /\ t_pc[k] = "run"
    /\ IF feed = "depth"
       THEN /\ message_queue < MaxQueue
            /\ Streamed # {}
            /\ message_queue' = message_queue + 1
            /\ UNCHANGED <<live_data, dispatches>>
       ELSE /\ dispatches < MaxDispatches
            /\ \E security_id \in Streamed :
                  live_data' = Put(live_data, security_id, dispatches + 1)
            /\ dispatches' = dispatches + 1
            /\ UNCHANGED message_queue
    /\ UNCHANGED <<feed, is_connected, subscribers, subscriptions, depth_data,
                   user_pc, pending, call, pre_subscribers, pre_subscriptions>>
    /\ UNCHANGED <<d_pc, d_sec, d_callbacks, d_attached, d_idx, d_reg0, invoked,
                   raised, propagated, client_lock, manager_lock>>
    /\ UNCHANGED <<transport, ws, t_pc, reconnect_attempts, stop_processing,
                   processing_thread, workers, error_count, connects,
                   attempts_since_open, delays, explicit, resub>>
    /\ UNCHANGED <<asmVars, registered, auxVars>>

\* _process_message_queue, lines 292-305: the worker w passes the loop test,
\* takes the queued messages and decodes them; the response is stored by the
\* manager
ProcessMessageQueue(w) ==
    /\ w \in workers
    /\ ~stop_processing
    /\ message_queue > 0
    /\ dispatches < MaxDispatches
    /\ message_queue' = 0
    /\ \E security_id \in Streamed :
          /\ depth_data' = Put(depth_data, security_id, dispatches + 1)
          /\ analysis_cache' = CacheAfterUpdate(security_id)
    /\ dispatches' = dispatches + 1
    /\ UNCHANGED <<feed, is_connected, subscribers, subscriptions, live_data,
                   user_pc, pending, call, pre_subscribers, pre_subscriptions>>
    /\ UNCHANGED <<d_pc, d_sec, d_callbacks, d_attached, d_idx, d_reg0, invoked,
                   raised, propagated, client_lock, manager_lock>>
    /\ UNCHANGED <<transport, ws, t_pc, reconnect_attempts, stop_processing,
                   processing_thread, workers, error_count, connects,
                   attempts_since_open, delays, explicit, resub>>
    /\ UNCHANGED <<asmVars, registered, errVars, decVars, fnVars, pipeVars,
                   histVars>>

\* _process_message_queue, line 292: the worker w sees stop_processing and
\* leaves its loop
WorkerExit(w) ==
    /\ w \in workers
    /\ stop_processing
    /\ workers' = workers \ {w}
    /\ UNCHANGED <<transport, ws, t_pc, reconnect_attempts, stop_processing,
                   processing_thread, message_queue, error_count, connects,
                   attempts_since_open, delays, explicit, resub>>
    /\ UNCHANGED <<asmVars, regVars, dispVars, registered, auxVars>>

\* _handle_error, line 321: the test that resets the count; it compares the
\* time of this error with the time of the previous error
WindowExpired == err_clock - last_error_time > error_reset_time

\* _handle_error, lines 321-324: the count after this error
CountAfterError == (IF WindowExpired THEN 0 ELSE error_count) + 1

\* _handle_error, lines 318-332, as called by the given thread: the count is
\* reset when the last error is older than error_reset_time, incremented,
\* and disconnect() is called when it has reached max_errors
HandleError(caller) ==
    /\ error_count' = CountAfterError
    /\ last_error_time' = err_clock
    /\ first_error_time' = IF CountAfterError = 1 THEN err_clock
                           ELSE first_error_time
    /\ UNCHANGED err_clock
    /\ IF CountAfterError >= max_errors
       THEN DisconnectBy(caller)
       ELSE UNCHANGED <<stop_processing, transport, is_connected>>

Trips == CountAfterError >= max_errors

\* time.time() moves on between two steps of the client
AdvanceClock ==
    /\ err_clock + ClockStep <= StartClock + MaxClockSteps * ClockStep
    /\ err_clock' = err_clock + ClockStep
    /\ UNCHANGED <<last_error_time, first_error_time>>
    /\ UNCHANGED <<asmVars, regVars, dispVars, connVars, registered, decVars, fnVars, pipeVars,
                   cacheVars, histVars>>

\* _process_message_queue, lines 303-307: decoding a queued message raises
\* on the worker w
ProcessingError(w) ==
    /\ w \in workers
    /\ ~stop_processing
    /\ message_queue > 0
    /\ error_count < max_errors
    /\ HandleError(w)
    /\ message_queue' = 0
    /\ UNCHANGED <<feed, subscribers, subscriptions, depth_data, live_data,
                   user_pc, pending, call, pre_subscribers, pre_subscriptions>>
    /\ UNCHANGED <<ws, t_pc, reconnect_attempts, processing_thread, workers,
                   connects, attempts_since_open, delays, explicit, resub>>
    /\ UNCHANGED <<asmVars, dispVars, registered, decVars, fnVars, pipeVars,
                   cacheVars, histVars>>

\* _on_message, lines 287-288: handling a message raises on the thread of
\* transport k
OnMessageError(k) ==
    /\ feed = "depth"
    /\ transport[k] = "open" /\ t_pc[k] = "run"
    /\ error_count < max_errors
    /\ HandleError(0)
    /\ message_queue' = IF Trips /\ DisconnectCompletes(0)
                        THEN 0 ELSE message_queue
    /\ UNCHANGED <<feed, subscribers, subscriptions, depth_data, live_data,
                   user_pc, pending, call, pre_subscribers, pre_subscriptions>>
    /\ UNCHANGED <<ws, t_pc, reconnect_attempts, processing_thread, workers,
                   connects, attempts_since_open, delays, explicit, resub>>
    /\ UNCHANGED <<asmVars, dispVars, registered, decVars, fnVars, pipeVars,
                   cacheVars, histVars>>

(* Connect, drop, reconnect and disconnect *)

InitReconnect ==
    /\ AssemblerFresh
    /\ feed \in {"depth", "ticker"}
    /\ ManagerFresh
    /\ AnalyzerFresh
    /\ NoAnalysis

NextReconnect ==
    \/ Connect(MaxTransports)
    \/ ConnectReturn
    \/ \E k \in Transports : OnOpen(k)
    \/ \E k \in Transports : OnCloseCheck(k)
    \/ \E k \in Transports : OnCloseIncrement(k)
    \/ \E k \in Transports : OnCloseConnect(k, MaxTransports)
    \/ \E k \in Transports : OnCloseConnectReturn(k)

SpecReconnect == InitReconnect /\ [][NextReconnect]_vars

(* A session of a client: the registry in use across drops, reconnects and *)
(* disconnect                                                               *)

InitSession ==
    /\ AssemblerFresh
    /\ feed \in {"depth", "ticker"}
    /\ ManagerFresh
    /\ AnalyzerFresh
    /\ NoAnalysis

NextSession ==
    \/ Connect(SessionTransports)
    \/ ConnectReturn
    \/ Disconnect
    \/ \E k \in Transports : OnOpen(k)
    \/ \E k \in Transports : OnCloseCheck(k)
    \/ \E k \in Transports : OnCloseIncrement(k)
    \/ \E k \in Transports : OnCloseConnect(k, SessionTransports)
    \/ \E k \in Transports : OnCloseConnectReturn(k)
    \/ \E k \in Transports : OnMessage(k)
    \/ \E w \in Transports : ProcessMessageQueue(w)
    \/ \E w \in Transports : WorkerExit(w)
    \/ SubscribeDepthBegin(ConnSecIds, ConnSegments, RegistryCallbacks)
    \/ SubscribeDepthSend
    \/ UnsubscribeDepth(ConnSecIds)
    \/ SubscribeInstrumentBegin(ConnSecIds, ConnSegments, RegistryCallbacks)
    \/ SubscribeInstrumentRegister
    \/ UnsubscribeInstrument(ConnSecIds, ConnSegments)

SpecSession == InitSession /\ [][NextSession]_vars

(* The error counter of the depth client and its circuit breaker *)

InitBreaker ==
    /\ AssemblerFresh
    /\ feed = "depth"
    /\ ManagerFresh
    /\ AnalyzerFresh
    /\ NoAnalysis

NextBreaker ==
    \/ Connect(BreakerTransports)
    \/ ConnectReturn
    \/ \E k \in Transports : OnOpen(k)
    \/ \E k \in Transports : OnCloseCheck(k)
    \/ \E k \in Transports : OnCloseIncrement(k)
    \/ \E k \in Transports : OnCloseConnect(k, BreakerTransports)
    \/ \E k \in Transports : OnCloseConnectReturn(k)
    \/ \E k \in Transports : OnMessage(k)
    \/ \E w \in Transports : ProcessMessageQueue(w)
    \/ \E w \in Transports : ProcessingError(w)
    \/ \E k \in Transports : OnMessageError(k)
    \/ \E w \in Transports : WorkerExit(w)
    \/ SubscribeDepthBegin(ConnSecIds, ConnSegments, {})
    \/ SubscribeDepthSend
    \/ AdvanceClock

SpecBreaker == InitBreaker /\ [][NextBreaker]_vars

(* Raw frames and what the parsers make of them *)

\* a raw message: binary or text, its length in bytes and its header fields
Messages(header, payload, codes) ==
    [binary : BOOLEAN,
     length : {header - 1, header, header + payload - 1, header + payload},
     code : codes, segment_code : SegmentCodes, security_id : ConnSecIds]

DepthMessages ==
    Messages(HeaderLength, PayloadLength,
             {BID_DATA, ASK_DATA, DISCONNECT, UnknownCode})
TickerMessages ==
    Messages(TickerHeaderLength, TickerPayloadLength, {TICKER, UnknownCode})

\* _parse_bid_depth / _parse_ask_depth, lines 375-377 and 401-403: a payload
\* under 320 bytes is logged as a warning and the parser returns
ShortPayloadRaises == "raise"
ShortPayload == "drop"

\* _parse_depth_message with the side parsers: "drop" is a return without
\* effect, "raise" an exception (struct.unpack on a str), "store" a side
\* snapshot handed to _store_depth_data
ParseDepthMessageResult(message) ==
    IF message.length < HeaderLength THEN "drop"
    ELSE IF ~message.binary THEN "raise"
    ELSE IF message.code \in {BID_DATA, ASK_DATA}
    THEN IF message.length - HeaderLength < PayloadLength
         THEN ShortPayload ELSE "store"
    ELSE "drop"

\* _parse_binary_message with _parse_ticker_packet: "drop" is a None return,
\* "raise" an exception of struct.unpack (a str, or fewer bytes than the
\* format needs), "packet" a TickerPacket
ParseBinaryMessageResult(message) ==
    IF message.length < TickerHeaderLength THEN "drop"
    ELSE IF ~message.binary THEN "raise"
    ELSE IF message.code = TICKER
    THEN IF message.length - TickerHeaderLength < TickerPayloadLength
         THEN "raise" ELSE "packet"
    ELSE "drop"

\* the server streams the instruments the client has subscribed to
IsStreamed(message) ==
    <<GetExchangeSegmentName(message.segment_code), message.security_id>>
        \in DOMAIN subscriptions

\* _process_message_queue, lines 296-307, for one queued message on the
\* worker w: _parse_depth_message, for a side snapshot _store_depth_data and,
\* when a response is emitted, the manager's _on_depth_update; an exception
\* goes to _handle_error
ParseQueuedMessage(w) ==
    /\ feed = "depth"
    /\ w \in workers
    /\ ~stop_processing
    /\ message_queue > 0
    /\ frames_seen < MaxFrames
    /\ error_count < max_errors
    /\ \E message \in DepthMessages :
        LET result == ParseDepthMessageResult(message)
            side == SideOf(message.code)
            frame == SideFrame(side, message.security_id,
                        GetExchangeSegmentName(message.segment_code),
                        now, frames_seen + 1)
        IN  /\ IsStreamed(message)
            /\ raw_frame' = message
            /\ outcomes' = Append(outcomes, result)
            /\ IF result = "store"
               THEN /\ StoreDepthData(message.security_id, side, frame)
                    /\ last_frame' = frame
                    /\ IF Len(delivered') > Len(delivered)
                       THEN /\ dispatches < MaxDispatches
                            /\ depth_data' = Put(depth_data, message.security_id,
                                                 dispatches + 1)
                            /\ analysis_cache' =
                                  CacheAfterUpdate(message.security_id)
                            /\ dispatches' = dispatches + 1
                       ELSE UNCHANGED <<depth_data, dispatches,
                                        analysis_cache>>
               ELSE UNCHANGED <<depth_buffers, delivered, last_frame,
                                depth_data, dispatches, analysis_cache>>
            /\ IF result = "raise"
               THEN HandleError(w)
               ELSE UNCHANGED <<error_count, errVars, stop_processing,
                                transport, is_connected>>
    /\ message_queue' = 0
    /\ frames_seen' = frames_seen + 1
    /\ now' = now
    /\ UNCHANGED <<feed, subscribers, subscriptions, live_data, user_pc,
                   pending, call, pre_subscribers, pre_subscriptions>>
    /\ UNCHANGED <<d_pc, d_sec, d_callbacks, d_attached, d_idx, d_reg0, invoked,
                   raised, propagated, client_lock, manager_lock>>
    /\ UNCHANGED <<ws, t_pc, reconnect_attempts, processing_thread, workers,
                   connects, attempts_since_open, delays, explicit, resub>>
    /\ UNCHANGED <<registered, fnVars, pipeVars, histVars>>

\* DhanWebSocketClient._on_message, lines 305-313, on the thread of
\* transport k: the message is parsed, a packet goes to the manager's
\* _on_market_data, an exception is logged
OnMessageTicker(k) ==
    /\ feed = "ticker"
    /\ transport[k] = "open" /\ t_pc[k] = "run"
    /\ frames_seen < MaxFrames
    /\ \E message \in TickerMessages :
        LET parsed == ParseBinaryMessageResult(message)
            result == IF parsed = "raise" THEN "logged" ELSE parsed
        IN  /\ IsStreamed(message)
            /\ raw_frame' = message
            /\ outcomes' = Append(outcomes, result)
            /\ IF result = "packet"
               THEN /\ dispatches < MaxDispatches
                    /\ live_data' = Put(live_data, message.security_id,
                                        dispatches + 1)
                    /\ dispatches' = dispatches + 1
               ELSE UNCHANGED <<live_data, dispatches>>
    /\ frames_seen' = frames_seen + 1
    /\ UNCHANGED <<now, depth_buffers, delivered, last_frame>>
    /\ UNCHANGED <<feed, is_connected, subscribers, subscriptions, depth_data,
                   user_pc, pending, call, pre_subscribers, pre_subscriptions>>
    /\ UNCHANGED <<d_pc, d_sec, d_callbacks, d_attached, d_idx, d_reg0, invoked,
                   raised, propagated, client_lock, manager_lock>>
    /\ UNCHANGED <<connVars, registered, errVars, fnVars, pipeVars,
                   cacheVars, histVars>>

InitDecode ==
    /\ AssemblerFresh
    /\ feed \in {"depth", "ticker"}
    /\ ManagerFresh
    /\ AnalyzerFresh
    /\ NoAnalysis

NextDecode ==
    \/ Connect(DecodeTransports)
    \/ ConnectReturn
    \/ \E k \in Transports : OnOpen(k)
    \/ SubscribeDepthBegin(ConnSecIds, SupportedSegments, {})
    \/ SubscribeDepthSend
    \/ SubscribeInstrumentBegin(ConnSecIds, SupportedSegments, {})
    \/ \E k \in Transports : feed = "depth" /\ OnMessage(k)
    \/ \E w \in Transports : ParseQueuedMessage(w)
    \/ \E k \in Transports : OnMessageTicker(k)

SpecDecode == InitDecode /\ [][NextDecode]_vars


-----------------------------------------------------------------------------
(* The levels of one side *)

\* the payload of a side frame as the exchange sends it: 16 bytes per level,
\* the book's levels in price priority from the best price, and the levels
\* the book does not have as zero price and zero quantity
WireLevels(side, depth, count) ==
    [i \in 1..count |->
        IF i > depth THEN [price |-> 0, quantity |-> 0]
        ELSE [price |-> IF side = "bid" THEN BestBid - (i - 1)
                        ELSE BestAsk + (i - 1),
              quantity |-> i]]

WirePayloads ==
    { [op |-> "parse", side |-> side, levels |-> WireLevels(side, depth, count)] :
        side \in Sides, depth \in 0..NumLevels,
        count \in NumLevels..(NumLevels + ExtraLevels) }

\* _parse_bid_depth / _parse_ask_depth, lines 379-394 and 405-420: the level i
\* is unpacked from offset i * 16 and appended, for i in range(20)
ParseSideLevels(payload) == [i \in 1..NumLevels |-> payload[i]]

\* _parse_bid_depth or _parse_ask_depth on a payload of at least 320 bytes
ParseSideDepth ==
    /\ fn_in.op = "parse" /\ fn_out = NoOutput
    /\ fn_out' = [op |-> "parse", side |-> fn_in.side,
                  levels |-> ParseSideLevels(fn_in.levels)]
    /\ UNCHANGED fn_in
    /\ UNCHANGED <<asmVars, regVars, dispVars, connVars, registered, errVars,
                   decVars, pipeVars, cacheVars, histVars>>

InitLevels ==
    /\ AssemblerFresh
    /\ feed = "depth"
    /\ ManagerFresh
    /\ AnalyzerFresh
    /\ fn_in \in WirePayloads
    /\ fn_out = NoOutput

NextLevels == ParseSideDepth

SpecLevels == InitLevels /\ [][NextLevels]_vars

-----------------------------------------------------------------------------
(* The analysis of one snapshot *)

\* the levels of one side of a snapshot: the best level, a run of count
\* levels of LargeQuantity from a position on, and the other levels
BookSide(side, best_quantity, position, count, rest) ==
    [i \in 1..NumLevels |->
        [price |-> IF side = "bid" THEN BestBid - (i - 1) ELSE BestAsk + (i - 1),
         quantity |-> IF i = 1 THEN best_quantity
                      ELSE IF position <= i /\ i < position + count
                      THEN LargeQuantity
                      ELSE rest]]

BookSides(side) ==
    { BookSide(side, best_quantity, position, count, rest) :
        best_quantity \in {0, 1, 3},
        position \in {2, StopLossLevels, StopLossLevels + 1},
        count \in {0, 1, 4}, rest \in {0, 1, 4} }

\* a MarketDepth20Response with the liquidity score its levels are given
Snapshots ==
    [op : {"analyze"}, bid_levels : BookSides("bid"),
     ask_levels : BookSides("ask"), liquidity_score : {0, 50, 100}]

RECURSIVE SumQuantity(_, _)
SumQuantity(levels, n) ==
    IF n = 0 THEN 0 ELSE levels[n].quantity + SumQuantity(levels, n - 1)

\* sum(level.quantity for level in levels)
TotalQuantity(levels) == SumQuantity(levels, Len(levels))

\* analyze_market_microstructure, lines 88-95: the imbalance as the fraction
\* num / den
OrderFlowImbalanceOfBids(total_bid_qty, total_ask_qty) == total_bid_qty
OrderFlowImbalanceNumerator(total_bid_qty, total_ask_qty) ==
    total_bid_qty - total_ask_qty

OrderFlowImbalance(bid_levels, ask_levels) ==
    LET total_bid_qty == TotalQuantity(bid_levels)
        total_ask_qty == TotalQuantity(ask_levels)
        total_qty == total_bid_qty + total_ask_qty
    IN  IF total_qty > 0
        THEN [num |-> OrderFlowImbalanceNumerator(total_bid_qty, total_ask_qty),
              den |-> total_qty]
        ELSE [num |-> 0, den |-> 1]

\* detect_demand_supply_zones: the levels whose quantity is above the side's
\* average quantity times threshold_multiplier
DetectZones(levels) ==
    { i \in 1..Len(levels) :
        levels[i].quantity * Len(levels)
            > TotalQuantity(levels) * threshold_multiplier }

\* generate_trading_signal, lines 131-146: the components of the signal;
\* the imbalance is compared with 0.3 and -0.3
SignalComponents(ofi, demand_zones, supply_zones) ==
    (IF 10 * ofi.num > 3 * ofi.den
     THEN <<[type |-> "BUY", weight |-> OrderFlowWeight]>>
     ELSE IF 10 * ofi.num < -3 * ofi.den
     THEN <<[type |-> "SELL", weight |-> OrderFlowWeight]>>
     ELSE <<>>)
    \o
    (IF Cardinality(demand_zones) > Cardinality(supply_zones) + ZoneMargin
     THEN <<[type |-> "BUY", weight |-> ZoneWeight]>>
     ELSE IF Cardinality(supply_zones) > Cardinality(demand_zones) + ZoneMargin
     THEN <<[type |-> "SELL", weight |-> ZoneWeight]>>
     ELSE <<>>)

RECURSIVE SumWeight(_, _)
SumWeight(signals, n) ==
    IF n = 0 THEN 0 ELSE signals[n].weight + SumWeight(signals, n - 1)

\* sum(s[1] for s in signals) / len(signals)
MeanWeight(signals) == SumWeight(signals, Len(signals)) \div Len(signals)

\* generate_trading_signal, line 178: the tie of the two directions
TieIsBuy(buy_signals) == [signal_type |-> "BUY", strength |-> MeanWeight(buy_signals)]
Tie(buy_signals) == [signal_type |-> "HOLD", strength |-> 0]

\* generate_trading_signal, lines 159-180: type and strength, and the
\* confidence in hundredths of a point
CombineSignals(signal_components, liquidity_score) ==
    IF signal_components = <<>>
    THEN [signal_type |-> "HOLD", strength |-> 0,
          confidence |-> HoldConfidence * 100]
    ELSE LET buy_signals == SelectSeq(signal_components,
                                      LAMBDA c : c.type = "BUY")
             sell_signals == SelectSeq(signal_components,
                                       LAMBDA c : c.type = "SELL")
             combined ==
                IF Len(buy_signals) > Len(sell_signals)
                THEN [signal_type |-> "BUY",
                      strength |-> MeanWeight(buy_signals)]
                ELSE IF Len(sell_signals) > Len(buy_signals)
                THEN [signal_type |-> "SELL",
                      strength |-> MeanWeight(sell_signals)]
                ELSE Tie(buy_signals)
             scaled == combined.strength * liquidity_score
         IN  [signal_type |-> combined.signal_type,
              strength |-> combined.strength,
              confidence |-> IF scaled < MaxConfidence * 100 THEN scaled
                             ELSE MaxConfidence * 100]

\* _calculate_stop_loss, lines 385-390 and 391-396, for the side of the signal
StopLossOn(levels, spread, sign) ==
    LET strong == { i \in 2..StopLossLevels :
                        levels[i].quantity > levels[1].quantity * 2 }
    IN  IF strong # {}
        THEN levels[Min(strong)].price - sign * spread
        ELSE levels[1].price - sign * spread * 2

\* _calculate_stop_loss
CalculateStopLoss(bid_levels, ask_levels, signal_type) ==
    LET spread == ask_levels[1].price - bid_levels[1].price
    IN  IF signal_type = "BUY" THEN StopLossOn(bid_levels, spread, 1)
        ELSE IF signal_type = "SELL" THEN StopLossOn(ask_levels, spread, -1)
        ELSE None

\* _calculate_target_levels: the prices of the first three levels that hold
\* more than 1.5 times the quantity of the best level
CalculateTargetLevels(bid_levels, ask_levels, signal_type) ==
    LET levels == IF signal_type = "BUY" THEN ask_levels ELSE bid_levels
    IN  IF signal_type \in {"BUY", "SELL"}
        THEN { levels[i].price : i \in
                { j \in 1..MaxTargets :
                    levels[j].quantity * 2 > levels[1].quantity * 3 } }
        ELSE {}

\* analyze_market_microstructure
AnalyzeMarketMicrostructure ==
    /\ fn_in.op = "analyze" /\ fn_out = NoOutput
    /\ fn_out' = [op |-> "microstructure",
                  order_flow_imbalance |->
                      OrderFlowImbalance(fn_in.bid_levels, fn_in.ask_levels)]
    /\ UNCHANGED fn_in
    /\ UNCHANGED <<asmVars, regVars, dispVars, connVars, registered, errVars,
                   decVars, pipeVars, cacheVars, histVars>>

\* generate_trading_signal
GenerateTradingSignal ==
    /\ fn_in.op = "analyze" /\ fn_out = NoOutput
    /\ LET ofi == OrderFlowImbalance(fn_in.bid_levels, fn_in.ask_levels)
           demand_zones == DetectZones(fn_in.bid_levels)
           supply_zones == DetectZones(fn_in.ask_levels)
           signal == CombineSignals(
                        SignalComponents(ofi, demand_zones, supply_zones),
                        fn_in.liquidity_score)
       IN  fn_out' =
             [op |-> "signal",
              order_flow_imbalance |-> ofi,
              demand_zones |-> demand_zones,
              supply_zones |-> supply_zones,
              signal_type |-> signal.signal_type,
              strength |-> signal.strength,
              confidence |-> signal.confidence,
              target_levels |-> CalculateTargetLevels(fn_in.bid_levels,
                                    fn_in.ask_levels, signal.signal_type),
              stop_loss |-> CalculateStopLoss(fn_in.bid_levels,
                                fn_in.ask_levels, signal.signal_type)]
    /\ UNCHANGED fn_in
    /\ UNCHANGED <<asmVars, regVars, dispVars, connVars, registered, errVars,
                   decVars, pipeVars, cacheVars, histVars>>

InitAnalysis ==
    /\ AssemblerFresh
    /\ feed = "depth"
    /\ ManagerFresh
    /\ AnalyzerFresh
    /\ fn_in \in Snapshots
    /\ fn_out = NoOutput

NextAnalysis ==
    \/ AnalyzeMarketMicrostructure
    \/ GenerateTradingSignal

SpecAnalysis == InitAnalysis /\ [][NextAnalysis]_vars

-----------------------------------------------------------------------------
(* The message queue of the depth client, message by message *)

\* _on_message, lines 272-285, on the thread of transport k: the message is
\* appended to self.message_queue under processing_lock
OnMessageAppend(k) ==
    /\ feed = "depth"
    /\ transport[k] = "open" /\ t_pc[k] = "run"
    /\ arrived < MaxArrivals
    /\ \E key \in DOMAIN subscriptions, side \in Sides :
          queue' = Append(queue, [side |-> side, seq |-> arrived + 1,
                                  exchange_segment |-> key[1],
                                  security_id |-> key[2], transport |-> k])
    /\ arrived' = arrived + 1
    /\ message_queue' = Len(queue')
    /\ UNCHANGED <<batches, decoded>>
    /\ UNCHANGED <<transport, ws, t_pc, reconnect_attempts, stop_processing,
                   processing_thread, workers, error_count, connects,
                   attempts_since_open, delays, explicit, resub>>
    /\ UNCHANGED <<asmVars, regVars, dispVars, registered, errVars, decVars,
                   fnVars, cacheVars, histVars>>

\* _process_message_queue, lines 292-300: the worker w passes the loop test
\* and, under processing_lock, copies and clears the queue
TakeMessages(w) ==
    /\ w \in workers
    /\ ~stop_processing
    /\ batches[w] = <<>>
    /\ queue # <<>>
    /\ batches' = [batches EXCEPT ![w] = queue]
    /\ queue' = <<>>
    /\ message_queue' = 0
    /\ UNCHANGED <<decoded, arrived>>
    /\ UNCHANGED <<transport, ws, t_pc, reconnect_attempts, stop_processing,
                   processing_thread, workers, error_count, connects,
                   attempts_since_open, delays, explicit, resub>>
    /\ UNCHANGED <<asmVars, regVars, dispVars, registered, errVars, decVars,
                   fnVars, cacheVars, histVars>>

\* _process_message_queue, lines 303-305: the worker w parses the next
\* message of its batch; a side snapshot goes to _store_depth_data and an
\* emitted response to the manager's _on_depth_update
ParseTaken(w) ==
    /\ w \in workers
    /\ batches[w] # <<>>
    /\ LET message == Head(batches[w])
           frame == SideFrame(message.side, message.security_id,
                              message.exchange_segment, now, message.seq)
       IN  /\ StoreDepthData(message.security_id, message.side, frame)
           /\ last_frame' = frame
           /\ decoded' = Append(decoded, message)
           /\ IF Len(delivered') > Len(delivered)
              THEN /\ dispatches < MaxDispatches
                   /\ depth_data' = Put(depth_data, message.security_id,
                                        dispatches + 1)
                   /\ analysis_cache' = CacheAfterUpdate(message.security_id)
                   /\ dispatches' = dispatches + 1
              ELSE UNCHANGED <<depth_data, dispatches, analysis_cache>>
    /\ batches' = [batches EXCEPT ![w] = Tail(batches[w])]
    /\ frames_seen' = frames_seen + 1
    /\ now' = now
    /\ UNCHANGED <<queue, arrived>>
    /\ UNCHANGED <<feed, is_connected, subscribers, subscriptions, live_data,
                   user_pc, pending, call, pre_subscribers, pre_subscriptions>>
    /\ UNCHANGED <<d_pc, d_sec, d_callbacks, d_attached, d_idx, d_reg0, invoked,
                   raised, propagated, client_lock, manager_lock>>
    /\ UNCHANGED <<connVars, registered, errVars, decVars, fnVars,
                   histVars>>

InitPipeline ==
    /\ AssemblerFresh
    /\ feed = "depth"
    /\ ManagerFresh
    /\ AnalyzerFresh
    /\ NoAnalysis

NextPipeline ==
    \/ Connect(PipeTransports)
    \/ ConnectReturn
    \/ \E k \in Transports : OnOpen(k)
    \/ \E k \in Transports : OnCloseCheck(k)
    \/ \E k \in Transports : OnCloseIncrement(k)
    \/ \E k \in Transports : OnCloseConnect(k, PipeTransports)
    \/ \E k \in Transports : OnCloseConnectReturn(k)
    \/ SubscribeDepthBegin(ConnSecIds, ConnSegments, {})
    \/ SubscribeDepthSend
    \/ \E k \in Transports : OnMessageAppend(k)
    \/ \E w \in Transports : TakeMessages(w)
    \/ \E w \in Transports : ParseTaken(w)

SpecPipeline == InitPipeline /\ [][NextPipeline]_vars

-----------------------------------------------------------------------------
(* The manager's cache of analyses *)

\* get_depth_analysis, lines 174-192, whole, under self.lock: the cached
\* analysis unless a refresh is forced or the entry is older than
\* cache_duration (expired: what the clock says), else the analysis of the
\* stored snapshot, which is cached; an analysis is known by the snapshot
\* _calculate_depth_analysis computed it from
GetDepthAnalysis(security_ids) ==
    /\ feed = "depth" /\ user_pc = "idle" /\ manager_lock = "none"
    /\ \E security_id \in security_ids, force_refresh \in BOOLEAN,
          expired \in BOOLEAN :
          IF /\ ~force_refresh
             /\ security_id \in DOMAIN analysis_cache
             /\ ~expired
          THEN /\ fn_out' = [op |-> "get_depth_analysis",
                             security_id |-> security_id, found |-> TRUE,
                             analysis |-> analysis_cache[security_id]]
               /\ UNCHANGED analysis_cache
          ELSE IF security_id \notin DOMAIN depth_data
          THEN /\ fn_out' = [op |-> "get_depth_analysis",
                             security_id |-> security_id, found |-> FALSE,
                             analysis |-> [computed_from |-> 0]]
               /\ UNCHANGED analysis_cache
          ELSE LET analysis == [computed_from |-> depth_data[security_id]]
               IN  /\ fn_out' = [op |-> "get_depth_analysis",
                                 security_id |-> security_id, found |-> TRUE,
                                 analysis |-> analysis]
                   /\ analysis_cache' = Put(analysis_cache, security_id,
                                            analysis)
    /\ fn_in' = fn_in
    /\ UNCHANGED <<asmVars, regVars, dispVars, connVars, registered, errVars,
                   decVars, pipeVars, histVars>>

NextCache ==
    \/ NextDispatch
    \/ GetDepthAnalysis(DispatchSecIds)

SpecCache == InitDispatch /\ [][NextCache]_vars

-----------------------------------------------------------------------------
(* The analyzer's history of snapshots and its volatility estimate *)

history_size == 100
RecentSnapshots == 10

\* add_depth_snapshot, line 69: the snapshot (its instrument and its best
\* bid and ask prices) is appended to the one deque of the analyzer, which
\* drops its oldest entry beyond history_size
AddDepthSnapshot ==
    /\ Len(depth_history) < MaxHistory
    /\ \E security_id \in SecIds, best_bid \in {0, BestBid, BestBid + 1} :
          LET snapshot == [security_id |-> security_id,
                           best_bid |-> best_bid,
                           best_ask |-> IF best_bid = 0 THEN 0
                                        ELSE best_bid + (BestAsk - BestBid)]
              history == Append(depth_history, snapshot)
          IN  depth_history' = IF Len(history) > history_size
                               THEN Tail(history) ELSE history
    /\ UNCHANGED <<asmVars, regVars, dispVars, connVars, registered, errVars,
                   decVars, fnVars, pipeVars, cacheVars>>

\* _estimate_volatility, lines 328-337: the sum of the price changes
\* abs(curr_mid - prev_mid) / prev_mid of the snapshots from the i-th on, as
\* one fraction, with their number (a mid price is half the sum of the best
\* bid and the best ask, so the halves cancel in the ratio)
RECURSIVE SumPriceChanges(_, _)
SumPriceChanges(recent_snapshots, i) ==
    IF i > Len(recent_snapshots)
    THEN [num |-> 0, den |-> 1, count |-> 0]
    ELSE LET rest == SumPriceChanges(recent_snapshots, i + 1)
             prev_mid == recent_snapshots[i - 1].best_bid
                         + recent_snapshots[i - 1].best_ask
             curr_mid == recent_snapshots[i].best_bid
                         + recent_snapshots[i].best_ask
             change == IF curr_mid >= prev_mid THEN curr_mid - prev_mid
                       ELSE prev_mid - curr_mid
         IN  IF prev_mid > 0
             THEN [num |-> change * rest.den + rest.num * prev_mid,
                   den |-> prev_mid * rest.den,
                   count |-> rest.count + 1]
             ELSE rest

\* _estimate_volatility, lines 321-342, on a history: 0.5 below two entries
\* or without a price change, else the mean change times 100 capped at 1.0
\* (the result is the fraction num / den)
EstimateVolatilityOf(history) ==
    IF Len(history) < 2
    THEN [num |-> 1, den |-> 2]
    ELSE LET recent_snapshots ==
                 IF Len(history) <= RecentSnapshots THEN history
                 ELSE SubSeq(history, Len(history) - RecentSnapshots + 1,
                             Len(history))
             changes == SumPriceChanges(recent_snapshots, 2)
         IN  IF changes.count = 0
             THEN [num |-> 1, den |-> 2]
             ELSE IF 100 * changes.num >= changes.den * changes.count
             THEN [num |-> 1, den |-> 1]
             ELSE [num |-> 100 * changes.num,
                   den |-> changes.den * changes.count]

\* _estimate_volatility(depth_data) for a snapshot of the given instrument:
\* the estimate is taken from self.depth_history as it is
EstimateVolatility ==
    /\ \E security_id \in SecIds :
          fn_out' = [op |-> "estimate_volatility",
                     security_id |-> security_id,
                     volatility |-> EstimateVolatilityOf(depth_history)]
    /\ fn_in' = fn_in
    /\ UNCHANGED <<asmVars, regVars, dispVars, connVars, registered, errVars,
                   decVars, pipeVars, cacheVars, histVars>>

InitHistory ==
    /\ AssemblerFresh
    /\ feed = "depth"
    /\ ManagerFresh
    /\ AnalyzerFresh
    /\ NoAnalysis

NextHistory ==
    \/ AddDepthSnapshot
    \/ EstimateVolatility

SpecHistory == InitHistory /\ [][NextHistory]_vars

-----------------------------------------------------------------------------
(* Claims about the assembler *)

Abs(x) == IF x < 0 THEN -x ELSE x

\* the buffered frame of the side opposite to frame f in buffer b
OppositeOf(b, f) == IF f.side = "bid" THEN b.ask ELSE b.bid

\* C1: every response passed to on_depth_update pairs a bid frame and an ask
\* frame that were captured no more than the buffer window (1 s) apart.
C1_PairedWithinWindow ==
    \A i \in 1..Len(delivered) :
        Abs(delivered[i].bid_depth.timestamp - delivered[i].ask_depth.timestamp)
            <= BufferWindow

-----------------------------------------------------------------------------
(* Claims about the registries *)

\* C3: the depth feed never has more than 50 subscribed instruments, whatever
\* sequence of subscribe and unsubscribe calls (with or without a callback,
\* single or batched) was made.
C3_AtMostFiftySubscribed ==
    feed = "depth" => Cardinality(DOMAIN subscriptions) <= max_subscriptions

SubscribeOps == {"subscribe_depth", "subscribe_instruments", "subscribe",
                 "subscribe_instrument"}

\* C4: after a subscribe call has raised, the manager's callback registry and
\* the client's subscription set are what they were when the call began.
C4_FailedSubscribeChangesNothing ==
    (call.op \in SubscribeOps /\ call.outcome \notin {"ok", "pending", "none"})
        => /\ subscribers = pre_subscribers
           /\ subscriptions = pre_subscriptions

-----------------------------------------------------------------------------
(* Claims about the dispatch *)

IsPrefix(s, t) == Len(s) <= Len(t) /\ SubSeq(t, 1, Len(s)) = s

\* what holds of a dispatch at every moment: nothing propagated out of it
\* and the callbacks invoked so far are the first ones of the list, in order
DispatchInOrder ==
    /\ ~propagated
    /\ d_pc # "aborted"
    /\ IsPrefix(invoked, d_callbacks)
    /\ IsPrefix(d_reg0, d_callbacks) \/ ~d_attached
    /\ d_pc = "callbacks" => Len(invoked) = d_idx - 1
    /\ d_pc = "in_callback" => Len(invoked) = d_idx

\* C5: in a dispatch every callback of the instrument is invoked exactly
\* once, in registration order, even when an earlier one raises; a raising
\* callback propagates nothing to the worker and leaves the registry, the
\* stored snapshots and the connection state as they are.
C5_EveryCallbackOnceInOrder ==
    [][ /\ DispatchInOrder /\ DispatchInOrder'
        /\ (d_pc = "callbacks" /\ d_pc' = "idle")
              => /\ invoked = d_callbacks
                 /\ IsPrefix(d_reg0, invoked) \/ ~d_attached
        /\ (d_pc = "in_callback" /\ raised' # raised)
              => /\ d_pc' = "callbacks"
                 /\ d_idx' = d_idx + 1
                 /\ UNCHANGED <<subscribers, subscriptions, depth_data,
                                live_data, is_connected>>
      ]_vars

\* C5 witness: of two registered callbacks the first has raised and the
\* second is running, in the same dispatch.
C5_Witness ==
    /\ d_pc = "in_callback"
    /\ Len(d_reg0) = 2
    /\ d_idx = 2
    /\ 1 \in raised
    /\ invoked = d_reg0

\* C6: while a subscriber callback runs, the dispatching thread holds neither
\* the client's lock nor the manager's lock.
C6_NoLockHeldInCallback ==
    d_pc = "in_callback" => (client_lock = "none" /\ manager_lock = "none")

-----------------------------------------------------------------------------
(* Claims about the connection lifecycle *)

OpensIn(t, u) == \E k \in Transports : t[k] = "connecting" /\ u[k] = "open"

\* C7: no more than 5 reconnection attempts are made between two opens, each
\* after a sleep of the fixed 5 s; the attempt counter goes back to 0, and
\* the client becomes connected again, only when a transport opens.
C7_AtMostFiveAttemptsFixedDelay ==
    [][ /\ attempts_since_open' <= max_reconnect_attempts
        /\ delays' \subseteq {5}
        /\ (reconnect_attempts # 0 /\ reconnect_attempts' = 0)
              => OpensIn(transport, transport')
        /\ (~is_connected /\ is_connected')
              => OpensIn(transport, transport')
      ]_vars

\* C8: the subscription request sent after a reconnect names exactly the
\* instruments that are subscribed and not unsubscribed at that moment, and
\* no step of an open, a close or a reconnection changes the callbacks that
\* are registered.
C8_ResubscribesExactlyTheRegistry ==
    [][ /\ resub' # resub
           => /\ resub'.result = "sent" => resub'.keys = resub'.registry
              /\ resub'.result = "empty" => resub'.registry = {}
        /\ (transport' # transport \/ t_pc' # t_pc)
           => subscribers' = subscribers
      ]_vars

\* C9: from disconnect() until the next connect() the client is not
\* connected, no reconnection attempt is started, no worker is started and no
\* snapshot is stored or dispatched.
C9_DisconnectIsFinal ==
    [][ (explicit /\ explicit')
          => /\ ~is_connected'
             /\ attempts_since_open' = attempts_since_open
             /\ workers' \subseteq workers
             /\ depth_data' = depth_data
             /\ live_data' = live_data
             /\ dispatches' = dispatches
      ]_vars

\* C10: when the error count of a connected depth client reaches 10, the
\* transport is closed and the client is no longer connected, whichever
\* thread recorded the error.
C10_ThresholdForcesDisconnect ==
    [][ ( /\ error_count < max_errors
          /\ error_count' >= max_errors
          /\ ws # 0 /\ transport[ws] = "open" )
          => /\ ~is_connected'
             /\ transport'[ws] \in {"closing", "closed"}
      ]_vars

\* C11: the breaker of the depth feed trips only when its 10 errors lie
\* within one reset window of 5 minutes: whenever the count stands at the
\* threshold, the first and the last error of the run are no more than
\* error_reset_time apart.
C11_TripsOnlyWithinOneWindow ==
    error_count >= max_errors
        => last_error_time - first_error_time <= error_reset_time


-----------------------------------------------------------------------------
(* Claims about the decoding of frames *)

Last(seq) == seq[Len(seq)]

\* a step in which a parser was handed a raw message
Decoded == frames_seen' = frames_seen + 1 /\ Len(outcomes') = Len(outcomes) + 1

\* a binary frame shorter than its header, shorter than the payload of its
\* response code, or with a response code the parser does not know
IsDeficient(message) ==
    /\ message.binary
    /\ IF feed = "depth"
       THEN \/ message.length < HeaderLength
            \/ /\ message.code \in {BID_DATA, ASK_DATA}
               /\ message.length < HeaderLength + PayloadLength
            \/ message.code = UnknownCode
       ELSE \/ message.length < TickerHeaderLength
            \/ /\ message.code = TICKER
               /\ message.length < TickerHeaderLength + TickerPayloadLength
            \/ message.code = UnknownCode

\* a binary frame of full length with a response code that carries data
IsWellFormed(message) ==
    /\ message.binary
    /\ IF feed = "depth"
       THEN /\ message.code \in {BID_DATA, ASK_DATA}
            /\ message.length >= HeaderLength + PayloadLength
       ELSE /\ message.code = TICKER
            /\ message.length >= TickerHeaderLength + TickerPayloadLength

\* the side snapshot or packet of a well-formed frame has been taken in
TakenIn(message) ==
    IF feed = "depth"
    THEN /\ Last(outcomes') = "store"
         /\ last_frame'.side = SideOf(message.code)
         /\ last_frame'.security_id = message.security_id
         /\ last_frame'.exchange_segment =
                GetExchangeSegmentName(message.segment_code)
         /\ \/ depth_buffers'[message.security_id][last_frame'.side] = last_frame'
            \/ /\ Len(delivered') = Len(delivered) + 1
               /\ Last(delivered')[last_frame'.side \o "_depth"] = last_frame'
    ELSE /\ Last(outcomes') = "packet"
         /\ message.security_id \in DOMAIN live_data'
         /\ dispatches' = dispatches + 1

IsMalformedOrShort(message) ==
    \/ ~message.binary
    \/ message.length < HeaderLength
    \/ /\ message.code \in {BID_DATA, ASK_DATA}
       /\ message.length < HeaderLength + PayloadLength

\* C13: every malformed or short depth frame raises the error counter of the
\* depth client by exactly one.
C13_ShortFrameCountsAsError ==
    [][ (Decoded /\ feed = "depth" /\ IsMalformedOrShort(raw_frame'))
            => error_count' = error_count + 1
      ]_vars


-----------------------------------------------------------------------------
(* Claims about unsubscribe *)

\* the security ids that are subscribed and not unsubscribed
RegisteredIds == {key[2] : key \in registered}

\* the value stored under a key is the one that was stored before the step
NotStored(map_before, map_after, key) ==
    key \in DOMAIN map_after
        => key \in DOMAIN map_before /\ map_after[key] = map_before[key]

\* C14: after unsubscribe of an instrument and until the next call of the
\* user, the instrument is not listed by get_all_subscribed_securities, no
\* update for it is stored, and a reconnect does not subscribe it again.
C14_UnsubscribedStaysAbsent ==
    [][ ( /\ call.op \in {"unsubscribe_depth", "unsubscribe_instrument"}
          /\ call' = call )
          => \A security_id \in ConnSecIds \ RegisteredIds :
                /\ feed = "depth" => security_id \notin DOMAIN depth_data'
                /\ NotStored(depth_data, depth_data', security_id)
                /\ NotStored(live_data, live_data', security_id)
                /\ resub' # resub
                    => security_id \notin {key[2] : key \in resub'.keys}
      ]_vars


-----------------------------------------------------------------------------
(* Claims about the snapshots *)

\* C15: every response passed to on_depth_update pairs a bid side and an ask
\* side of the same security id and the same exchange segment, and carries
\* that security id and that segment itself.
C15_PairSharesInstrumentAndSegment ==
    \A i \in 1..Len(delivered) :
        LET response == delivered[i]
        IN  /\ response.bid_depth.security_id = response.ask_depth.security_id
            /\ response.bid_depth.exchange_segment
                    = response.ask_depth.exchange_segment
            /\ response.security_id = response.bid_depth.security_id
            /\ response.exchange_segment = response.bid_depth.exchange_segment


\* the prices of a side are in its price priority: from the highest down for
\* bids, from the lowest up for asks
InPricePriority(side, levels) ==
    \A i \in 1..(Len(levels) - 1) :
        IF side = "bid" THEN levels[i].price >= levels[i + 1].price
        ELSE levels[i].price <= levels[i + 1].price

\* C16: every side snapshot that a parser hands to the assembler has exactly
\* 20 levels, in descending order of price for bids and in ascending order
\* of price for asks.
C16_TwentyLevelsInPricePriority ==
    fn_out.op = "parse"
        => /\ Len(fn_out.levels) = NumLevels
           /\ InPricePriority(fn_out.side, fn_out.levels)


-----------------------------------------------------------------------------
(* Claims about the trading signal *)

\* the candidates the claim names, for an imbalance num / den and the two
\* numbers of zones
Candidates(ofi, demand, supply) ==
    { c \in [type : {"BUY", "SELL"}, weight : {60, 70}] :
        \/ c.type = "BUY" /\ c.weight = 70 /\ 10 * ofi.num > 3 * ofi.den
        \/ c.type = "SELL" /\ c.weight = 70 /\ 10 * ofi.num < -3 * ofi.den
        \/ c.type = "BUY" /\ c.weight = 60 /\ demand > supply + 2
        \/ c.type = "SELL" /\ c.weight = 60 /\ supply > demand + 2 }

OfType(candidates, type) == {c \in candidates : c.type = type}

\* the sum of the weights of candidates of one direction (their weights
\* are distinct)
WeightSum(candidates) ==
    (IF \E c \in candidates : c.weight = 70 THEN 70 ELSE 0)
    + (IF \E c \in candidates : c.weight = 60 THEN 60 ELSE 0)

\* C17: the signal type is the direction with strictly more candidates
\* among (BUY,70) for an imbalance above 0.3, (SELL,70) for one below -0.3,
\* (BUY,60) for more than two demand zones in excess and (SELL,60) for more
\* than two supply zones in excess; a tie or no candidate gives HOLD; the
\* strength is the mean weight of the winning candidates and 0 for HOLD.
C17_SignalIsMajorityOfCandidates ==
    fn_out.op = "signal" =>
        LET candidates == Candidates(fn_out.order_flow_imbalance,
                                     Cardinality(fn_out.demand_zones),
                                     Cardinality(fn_out.supply_zones))
            buy == OfType(candidates, "BUY")
            sell == OfType(candidates, "SELL")
        IN  /\ Cardinality(buy) > Cardinality(sell)
                => /\ fn_out.signal_type = "BUY"
                   /\ fn_out.strength * Cardinality(buy) = WeightSum(buy)
            /\ Cardinality(sell) > Cardinality(buy)
                => /\ fn_out.signal_type = "SELL"
                   /\ fn_out.strength * Cardinality(sell) = WeightSum(sell)
            /\ Cardinality(buy) = Cardinality(sell)
                => fn_out.signal_type = "HOLD" /\ fn_out.strength = 0

\* an imbalance of 0.5 without a zone imbalance has given BUY with
\* strength 70
C17_Witness ==
    /\ fn_out.op = "signal"
    /\ 2 * fn_out.order_flow_imbalance.num = fn_out.order_flow_imbalance.den
    /\ Cardinality(fn_out.demand_zones) = Cardinality(fn_out.supply_zones)
    /\ fn_out.signal_type = "BUY"
    /\ fn_out.strength = 70


\* the smaller of two numbers
Lesser(a, b) == IF a < b THEN a ELSE b

\* C18: for every generated signal, HOLD included, the confidence is
\* min(90, strength * liquidityScore / 100) (here in hundredths of a point):
\* 0 for a HOLD signal and never above 90.
C18_ConfidenceFromStrengthAndLiquidity ==
    fn_out.op = "signal" =>
        /\ fn_out.confidence
              = Lesser(90 * 100, fn_out.strength * fn_in.liquidity_score)
        /\ fn_out.signal_type = "HOLD" => fn_out.confidence = 0
        /\ fn_out.confidence <= 90 * 100


\* the stop loss the claim names on the levels of the signal's side: the
\* first level after the best one, at any position, whose quantity is more
\* than twice the best level's, moved by one spread away from the market,
\* and the best price moved by two spreads when no level qualifies
ExpectedStopLoss(levels, spread, sign) ==
    LET strong == { i \in 2..Len(levels) :
                        levels[i].quantity > 2 * levels[1].quantity }
    IN  IF strong # {}
        THEN levels[Min(strong)].price - sign * spread
        ELSE levels[1].price - sign * 2 * spread

\* C19: the stop loss of a BUY signal is the price of the first bid level
\* after the best bid, at any position, whose quantity exceeds twice the
\* best bid's quantity, minus one spread, and bestBid - 2 * spread when no
\* bid level qualifies; for SELL the same on the ask levels with the spread
\* added; a HOLD signal has no stop loss and no targets.
C19_StopLossAtFirstStrongLevel ==
    fn_out.op = "signal" =>
        LET spread == fn_in.ask_levels[1].price - fn_in.bid_levels[1].price
        IN  CASE fn_out.signal_type = "BUY" ->
                    fn_out.stop_loss
                        = ExpectedStopLoss(fn_in.bid_levels, spread, 1)
              [] fn_out.signal_type = "SELL" ->
                    fn_out.stop_loss
                        = ExpectedStopLoss(fn_in.ask_levels, spread, -1)
              [] OTHER ->
                    fn_out.stop_loss = None /\ fn_out.target_levels = {}


\* C20: the order flow imbalance num / den equals (total bid quantity -
\* total ask quantity) / (total bid quantity + total ask quantity), lies in
\* [-1, 1], is 0 when the two totals are equal, both 0 included, and is 1
\* when the ask total is 0 and the bid total is positive.
C20_ImbalanceIsBoundedRatio ==
    fn_out.op = "microstructure" =>
        LET ofi == fn_out.order_flow_imbalance
            bid == TotalQuantity(fn_in.bid_levels)
            ask == TotalQuantity(fn_in.ask_levels)
        IN  /\ ofi.den > 0
            /\ bid + ask > 0 => ofi.num * (bid + ask) = (bid - ask) * ofi.den
            /\ -ofi.den <= ofi.num /\ ofi.num <= ofi.den
            /\ bid = ask => ofi.num = 0
            /\ (ask = 0 /\ bid > 0) => ofi.num = ofi.den

\* the imbalance of a snapshot without ask quantity and with bid quantity
\* has been computed as 1
C20_Witness ==
    /\ fn_out.op = "microstructure"
    /\ TotalQuantity(fn_in.ask_levels) = 0
    /\ TotalQuantity(fn_in.bid_levels) > 0
    /\ fn_out.order_flow_imbalance.num = fn_out.order_flow_imbalance.den


-----------------------------------------------------------------------------
(* Claims about connect and the workers *)

\* no close event has been handled yet: every transport that was started was
\* started by a connect() call of the user and is still in its handshake
OnlyUserTransportsInHandshake ==
    \A k \in Transports :
        t_pc[k] = "run" /\ transport[k] \in {"unused", "connecting"}

\* C21: after connect() has failed because no open was signalled within its
\* timeout, the client is not reported as connected: an open that the
\* abandoned transport signals later does not make it connected.
C21_FailedConnectStaysDisconnected ==
    [][ ( /\ call = [op |-> "connect", outcome |-> "WebSocketError"]
          /\ call' = call
          /\ OnlyUserTransportsInHandshake
          /\ ws # 0 /\ ws' = ws
          /\ transport'[ws] = "open" )
          => ~is_connected'
      ]_vars

-----------------------------------------------------------------------------
(* Claims about the message queue and its workers *)

\* the decoded messages of one side of one security id
DecodedOf(messages, security_id, side) ==
    {messages[i] : i \in {j \in 1..Len(messages) :
                            /\ messages[j].security_id = security_id
                            /\ messages[j].side = side}}

\* C22: every emitted snapshot contains, for each side, the frame of that
\* side that was received last on the wire before the emission: when a
\* response is emitted, no message of the same instrument and side that has
\* already been decoded arrived on the wire after the frame the response
\* holds for that side.
C22_SnapshotHoldsLatestOnWire ==
    [][ Len(delivered') = Len(delivered) + 1 =>
          LET r == delivered'[Len(delivered')]
          IN  /\ \A m \in DecodedOf(decoded', r.security_id, "bid") :
                    m.seq <= r.bid_depth.seq
              /\ \A m \in DecodedOf(decoded', r.security_id, "ask") :
                    m.seq <= r.ask_depth.seq
      ]_vars

\* the decoded messages of one instrument (exchange segment and security id)
DecodedOfInstrument(m) ==
    {decoded[i] : i \in {j \in 1..Len(decoded) :
                          /\ decoded[j].security_id = m.security_id
                          /\ decoded[j].exchange_segment = m.exchange_segment}}

\* only frames of one side have arrived for the instrument of m
OneSided(m) == \A n \in DecodedOfInstrument(m) : n.side = m.side

\* m is the last frame that arrived for its instrument
IsLatest(m) == \A n \in DecodedOfInstrument(m) : n.seq <= m.seq

\* C23: if only frames of one side ever arrive for an instrument, no
\* snapshot is ever emitted for that instrument and its buffered frame is
\* never freed, however much time passes: the buffer holds exactly one
\* pending frame for it, the latest one.
C23_OneSidedNeverEmitsNorFrees ==
    \A i \in 1..Len(decoded) :
        LET m == decoded[i]
            buffer == depth_buffers[m.security_id]
        IN  (OneSided(m) /\ IsLatest(m)) =>
              /\ \A j \in 1..Len(delivered) :
                    ~ ( /\ delivered[j].security_id = m.security_id
                        /\ delivered[j].exchange_segment = m.exchange_segment )
              /\ buffer[m.side] # NoFrame
              /\ buffer[m.side].seq = m.seq
              /\ buffer[m.side].exchange_segment = m.exchange_segment
              /\ \A side \in Sides \ {m.side} :
                    \/ buffer[side] = NoFrame
                    \/ buffer[side].exchange_segment # m.exchange_segment

-----------------------------------------------------------------------------
(* Claims about the reconnection attempts and the workers *)

\* the transport threads that are inside a reconnection attempt of
\* _on_close: past the increment of the counter, in the sleep or in connect()
Reconnecting == {k \in Transports : t_pc[k] \in {"sleep", "wait"}}

\* C24: at most one reconnection attempt is in progress at any time: attempt
\* n+1 starts only after the connect() of attempt n has returned with an
\* error, whichever transport thread observes the close event.
C24_OneReconnectionAtATime == Cardinality(Reconnecting) <= 1

\* C25: the message queue between the I/O worker and the processing worker
\* is bounded: its length is at most a fixed capacity in every reachable
\* state, so it never holds all of the MaxArrivals messages that the I/O
\* worker appended, whatever that number is.
C25_QueueIsBounded == Len(queue) < MaxArrivals

\* C27: at any time at most one message-processing worker of a depth feed
\* client is running, after any sequence of open, close, reconnect and
\* disconnect events.
C27_OneProcessingWorker == Cardinality(workers) <= 1

\* every message decoded so far arrived on the transport that is open now:
\* the client has stayed connected since the first of them arrived
ConnectedThroughout ==
    /\ is_connected
    /\ ws # 0 /\ transport[ws] = "open"
    /\ \A i \in 1..Len(decoded) : decoded[i].transport = ws

\* C28: while the depth client stays connected, every frame handed to
\* _on_message is decoded at most once and frames are decoded in arrival
\* order: no frame is decoded twice or overtaken by a frame that arrived
\* after it.
C28_DecodedInArrivalOrder ==
    ConnectedThroughout =>
        \A i, j \in 1..Len(decoded) :
            i < j => decoded[i].seq < decoded[j].seq

-----------------------------------------------------------------------------
(* Claims about the ticker feed *)

\* C29: after a reconnect of the ticker/quote feed, every instrument is
\* resubscribed with the feed mode recorded for it when it was subscribed,
\* and its recorded feed mode is unchanged by the reconnect.
C29_ResubscribeKeepsFeedMode ==
    [][ ( /\ feed = "ticker"
          /\ resub'.n = resub.n + 1
          /\ resub'.result = "sent" )
        => \A key \in DOMAIN subscriptions :
              /\ key \in DOMAIN subscriptions'
              /\ subscriptions'[key].feed_mode = subscriptions[key].feed_mode
      ]_vars

-----------------------------------------------------------------------------
(* Claims about the analyzer's history and the manager's cache *)

\* the stored history of one instrument
HistoryOf(security_id) ==
    LET IsOwn(snapshot) == snapshot.security_id = security_id
    IN  SelectSeq(depth_history, IsOwn)

\* two fractions are the same number
SameFraction(a, b) == a.num * b.den = b.num * a.den

\* C26: the volatility estimate computed for a snapshot of instrument X
\* depends only on the stored history of X (at most its last 10 entries) and
\* is 0.5 when X has fewer than 2 history entries: it is the estimate taken
\* from X's own entries, whatever snapshots of other instruments were added.
C26_VolatilityFromOwnHistory ==
    [][ ( /\ fn_out'.op = "estimate_volatility"
          /\ depth_history' = depth_history )
        => SameFraction(fn_out'.volatility,
                        EstimateVolatilityOf(HistoryOf(fn_out'.security_id)))
      ]_vars

\* C30: get_depth_analysis(X) never returns an analysis computed from a
\* snapshot other than the latest snapshot stored for X: after every step a
\* cached analysis for X, if present, was computed from the current
\* depth_data[X], and an analysis that is returned was computed from it.
C30_CachedAnalysisIsOfLatestSnapshot ==
    [][ /\ \A security_id \in DOMAIN analysis_cache' :
              /\ security_id \in DOMAIN depth_data'
              /\ analysis_cache'[security_id].computed_from
                     = depth_data'[security_id]
        /\ (fn_out' # fn_out /\ fn_out'.found) =>
              /\ fn_out'.security_id \in DOMAIN depth_data'
              /\ fn_out'.analysis.computed_from
                     = depth_data'[fn_out'.security_id]
      ]_vars

\* C30 witness: an analysis of the first snapshot of instrument 1 was
\* returned and cached, and the update that stored the second snapshot has
\* removed the cache entry.
C30_Witness ==
    /\ fn_out.op = "get_depth_analysis"
    /\ fn_out.found
    /\ fn_out.analysis.computed_from = 1
    /\ 1 \in DOMAIN depth_data
    /\ depth_data[1] = 2
    /\ 1 \notin DOMAIN analysis_cache

=============================================================================
